---- MODULE Spec2Model ----
(***************************************************************************)
(* Incremental determinization (IncDet) solver for 2QBF, booleanium.       *)
(* The solver state is the record of the fields of `IncDet`; every         *)
(* operation of the solver is an operator from records to records, and     *)
(* the actions are the steps of from_qcnf and of the loop of _solve.       *)
(***************************************************************************)
EXTENDS Integers, Sequences, FiniteSets, TLC

VARIABLES
    input,      \* the QCNF handed to from_qcnf: [prefix, matrix]
    pc,         \* position of the driver
    next_line,  \* number of prefix lines / clauses already consumed (for a heap
                \* driven operation by operation: number of operations applied)
    s,          \* the IncDet solver
    conflict,   \* the Conflict handed to handle_conflict (None or Some)
    backtrack,  \* the level returned by analyze (None or Some)
    result      \* the SolverResult returned by solve (None or Some)

vars == <<input, pc, next_line, s, conflict, backtrack, result>>

----------------------------------------------------------------------------
(* Bounds of the model *)

\* largest number of clauses of a generated matrix
MaxClauses == 3
\* largest number of learnt clauses followed in one run
MaxLearnt == 5
\* number of variables of the heaps that are driven operation by operation
NumHeapVars == 6
\* largest number of operations applied to such a heap
MaxHeapOps == 7
\* largest number of integers of a generated clause line
MaxTokens == 2

----------------------------------------------------------------------------
(* Option<T> *)

None == <<>>
Some(x) == <<x>>
is_some(o) == o # <<>>
unwrap(o) == o[1]

\* let value = ...; the rest of the function is an operator of the value
Let(value, In(_)) == In(value)

Max(S) == CHOOSE x \in S : \A y \in S : y <= x
Range(seq) == {seq[i] : i \in 1..Len(seq)}

\* Vec::retain with a predicate given as the set of kept values
RECURSIVE SelectIn(_, _)
SelectIn(seq, keep) ==
    IF seq = <<>> THEN <<>>
    ELSE IF Head(seq) \in keep THEN <<Head(seq)>> \o SelectIn(Tail(seq), keep)
    ELSE SelectIn(Tail(seq), keep)

----------------------------------------------------------------------------
(* literal.rs: Var is an index, Lit is (index << 1) | negative *)

positive(v) == 2 * v
negative(v) == 2 * v + 1
var(l) == l \div 2
is_negative(l) == l % 2 = 1
is_positive(l) == ~is_negative(l)
negated(l) == IF l % 2 = 0 THEN l + 1 ELSE l - 1
var_from_dimacs(d) == d - 1
var_to_dimacs(v) == v + 1
from_dimacs(d) == IF d > 0 THEN positive(var_from_dimacs(d))
                  ELSE negative(var_from_dimacs(-d))
to_dimacs(l) == IF is_negative(l) THEN -var_to_dimacs(var(l)) ELSE var_to_dimacs(var(l))

\* insertion of a literal into an ascending sequence, dropping duplicates
RECURSIVE SortedInsert(_, _)
SortedInsert(seq, x) ==
    IF seq = <<>> THEN <<x>>
    ELSE IF x = Head(seq) THEN seq
    ELSE IF x < Head(seq) THEN <<x>> \o seq
    ELSE <<Head(seq)>> \o SortedInsert(Tail(seq), x)

\* lits.sort_unstable(); lits.dedup()
RECURSIVE sort_dedup(_)
sort_dedup(lits) ==
    IF lits = <<>> THEN <<>>
    ELSE SortedInsert(sort_dedup(Tail(lits)), Head(lits))

----------------------------------------------------------------------------
(* qcnf.rs: the inputs *)

Forall == "Forall"
Exists == "Exists"

RECURSIVE MapDimacs(_)
MapDimacs(ds) ==
    IF ds = <<>> THEN <<>> ELSE <<from_dimacs(Head(ds))>> \o MapDimacs(Tail(ds))

RECURSIVE MapVars(_)
MapVars(ds) ==
    IF ds = <<>> THEN <<>> ELSE <<var_from_dimacs(Head(ds))>> \o MapVars(Tail(ds))

RECURSIVE MapPrefix(_)
MapPrefix(p) ==
    IF p = <<>> THEN <<>>
    ELSE <<[quant |-> Head(p)[1], vars |-> MapVars(Head(p)[2])]>> \o MapPrefix(Tail(p))

RECURSIVE MapMatrix(_)
MapMatrix(m) ==
    IF m = <<>> THEN <<>> ELSE <<MapDimacs(Head(m))>> \o MapMatrix(Tail(m))

\* QCNF::new
QCNF(prefix, matrix) == [prefix |-> MapPrefix(prefix), matrix |-> MapMatrix(matrix)]

\* the formulas of incdet/test.rs
propagation_sat ==
    QCNF(<< <<Forall, <<1>>>>, <<Exists, <<2>>>> >>, << <<1, -2>>, <<-1, 2>> >>)
propagation_unsat ==
    QCNF(<< <<Forall, <<1>>>>, <<Exists, <<2>>>> >>,
         << <<1, -2>>, <<-1, 2>>, <<-1, -2>> >>)
propagation_sat_incdet_paper ==
    QCNF(<< <<Forall, <<1, 2>>>>, <<Exists, <<3, 4>>>> >>,
         << <<1, -3>>, <<2, -3>>, <<-1, -2, 3>>, <<-1, -4>>, <<-3, -4>>, <<1, 3, 4>> >>)
global_conflict_analysis ==
    QCNF(<< <<Forall, <<1>>>>, <<Exists, <<2, 3>>>> >>,
         << <<2>>, <<2, -3>>, <<-2, 3>>, <<2, 3>> >>)
unsat_with_decsision ==
    QCNF(<< <<Forall, <<1, 2>>>>, <<Exists, <<3, 4, 5>>>> >>,
         << <<2, -3>>, <<-1, -2, 3>>, <<1, -4>>, <<-3, -4>>, <<1, 3, 4>>,
            <<-1, 5>>, <<1, -5>> >>)
unsat_1 ==
    QCNF(<< <<Forall, <<3>>>>, <<Exists, <<1, 2, 4, 5>>>> >>,
         << <<-5, -3>>, <<5, -1>>, <<1>>, <<4, 2>> >>)
unsat_2 ==
    QCNF(<< <<Forall, <<2, 4>>>>, <<Exists, <<1, 3, 5>>>> >>,
         << <<-5, 2>>, <<-3, -1>>, <<3, 1>>, <<1, -3, 5>>, <<-1, -4>> >>)
constant_propagation_unsat ==
    QCNF(<< <<Forall, <<2>>>>, <<Exists, <<1>>>> >>, << <<-1>>, <<1, -2>> >>)

TestInputs ==
    {propagation_sat, propagation_unsat, propagation_sat_incdet_paper,
     global_conflict_analysis, unsat_with_decsision, unsat_1, unsat_2,
     constant_propagation_unsat}

\* inputs that reach the remaining branches of _quantify and _add_clause:
\* a quantifier repeated on two lines, a variable bound twice, a duplicated
\* literal, a tautology, a clause of universal literals only, a variable
\* (1) that no quantifier line binds and no clause uses, a universal scope
\* inside the existential one, a variable with more clauses and fewer
\* literals on its positive literal than on its negative one, a conflict
\* below a decision whose variable takes the value its implications force,
\* a conflict at the third decision whose learnt clause has literals of the
\* first and of the second decision level
ExtraInputs ==
    {QCNF(<< <<Forall, <<1>>>>, <<Exists, <<2>>>>, <<Exists, <<3>>>> >>,
          << <<2, 3, 3>>, <<-2, 1, -3>> >>),
     QCNF(<< <<Forall, <<1, 2>>>>, <<Exists, <<2, 3>>>> >>,
          << <<1, 2>>, <<-2, 3>>, <<-1, -3>> >>),
     QCNF(<< <<Forall, <<1>>>>, <<Exists, <<2, 3>>>> >>,
          << <<2, -2, 3>>, <<1, -1>>, <<2, 3>> >>),
     QCNF(<< <<Forall, <<1>>>>, <<Exists, <<2>>>>, <<Forall, <<3>>>> >>,
          << <<1, -1>>, <<2, 3>> >>),
     QCNF(<< <<Forall, <<1>>>>, <<Exists, <<2>>>> >>, << <<1>>, <<2>> >>),
     QCNF(<< <<Exists, <<2>>>> >>, << <<2>> >>),
     QCNF(<< <<Exists, <<1, 2>>>>, <<Forall, <<3>>>> >>,
          << <<1, 2, 3>>, <<-1, 2, -3>>, <<1, -2>> >>),
     QCNF(<< <<Forall, <<1, 2, 3, 4>>>>, <<Exists, <<5>>>> >>,
          << <<5, 1>>, <<5, 2>>, <<-5, -1, -2, 3, 4>> >>),
     QCNF(<< <<Exists, <<1, 2, 3, 4, 5>>>> >>,
          << <<1>>, <<2>>, <<-5, -1>>, <<5, 2>>, <<4, 5, -3>>, <<-4, 5, -3>> >>),
     QCNF(<< <<Exists, <<1, 2, 3, 4>>>> >>,
          << <<2, 3>>, <<2, -3>>, <<-1, -2, -3, -4>> >>)}

\* the prefixes of the generated inputs
GenPrefixes ==
    {MapPrefix(<< <<Forall, <<1>>>>, <<Exists, <<2, 3>>>> >>),
     MapPrefix(<< <<Exists, <<1, 2, 3>>>> >>),
     MapPrefix(<< <<Forall, <<1>>>>, <<Exists, <<2>>>>, <<Forall, <<3>>>> >>)}

\* the variables a prefix binds
PrefixVars(prefix) == UNION {Range(prefix[i].vars) : i \in 1..Len(prefix)}

\* the k-th clause over the variables vs (ascending): digit i of k in base 3
\* says whether variable vs[i] is absent, positive or negative
RECURSIVE GenClause(_, _)
GenClause(vs, k) ==
    IF vs = <<>> THEN <<>>
    ELSE LET d == k % 3
             rest == GenClause(Tail(vs), k \div 3)
         IN  IF d = 0 THEN rest
             ELSE IF d = 1 THEN <<positive(Head(vs))>> \o rest
             ELSE <<negative(Head(vs))>> \o rest

RECURSIVE Pow(_, _)
Pow(b, n) == IF n = 0 THEN 1 ELSE b * Pow(b, n - 1)

RECURSIVE SetToSortedSeq(_)
SetToSortedSeq(S) ==
    IF S = {} THEN <<>>
    ELSE LET m == CHOOSE x \in S : \A y \in S : x <= y
         IN  <<m>> \o SetToSortedSeq(S \ {m})

\* ascending sequences of at most n clause numbers below limit
RECURSIVE GenIndexSeqs(_, _)
GenIndexSeqs(n, limit) ==
    IF n = 0 THEN {<<>>}
    ELSE LET shorter == GenIndexSeqs(n - 1, limit)
             longest == {r \in shorter : Len(r) = n - 1}
             first(q) == IF q = <<>> THEN 0 ELSE q[Len(q)] + 1
         IN  shorter \cup
             UNION {{Append(q, k) : k \in first(q)..(limit - 1)} : q \in longest}

RECURSIVE GenMatrix(_, _)
GenMatrix(vs, q) ==
    IF q = <<>> THEN <<>> ELSE <<GenClause(vs, Head(q))>> \o GenMatrix(vs, Tail(q))

GenMatrices(prefix) ==
    LET vs == SetToSortedSeq(PrefixVars(prefix))
        limit == Pow(3, Len(vs))
    IN  {GenMatrix(vs, q) : q \in GenIndexSeqs(MaxClauses, limit)}

\* a generated input: one of the prefixes with one of its matrices
GenInput(in) ==
    \E p \in GenPrefixes : \E m \in GenMatrices(p) : in = [prefix |-> p, matrix |-> m]

----------------------------------------------------------------------------
(* datastructure.rs: VarVec and LitVec are functions on 0..n-1 *)

\* Vec::resize_with(count, Default::default)
resize(vec, count, default) ==
    [i \in 0..(count - 1) |-> IF i \in DOMAIN vec THEN vec[i] ELSE default]

EmptyVec == [i \in {} |-> 0]

----------------------------------------------------------------------------
(* datastructure/heap.rs: VarHeap<T>, positions and heap indices count from 0 *)

VarHeapDefault == [values |-> EmptyVec, heap |-> <<>>, positions |-> EmptyVec]

heap_set_var_count(h, count) ==
    [h EXCEPT !.values = resize(h.values, count, 0),
              !.positions = resize(h.positions, count, None)]

heap_peek(h) == IF h.heap = <<>> THEN None ELSE Some(h.heap[1])

heap_at(h, pos) == h.heap[pos + 1]
heap_value_at(h, pos) == h.values[heap_at(h, pos)]

left(h, pos) == IF 2 * pos + 1 < Len(h.heap) THEN Some(2 * pos + 1) ELSE None
right(h, pos) == IF 2 * pos + 2 < Len(h.heap) THEN Some(2 * pos + 2) ELSE None
parent(pos) == IF pos = 0 THEN None ELSE Some((pos - 1) \div 2)

swap(h, a, b) ==
    LET var_a == heap_at(h, a)
        var_b == heap_at(h, b)
    IN  [h EXCEPT !.heap = [h.heap EXCEPT ![a + 1] = var_b, ![b + 1] = var_a],
                  !.positions = [h.positions EXCEPT ![var_a] = Some(b), ![var_b] = Some(a)]]

RECURSIVE sift_up(_, _)
sift_up(h, pos) ==
    IF parent(pos) = None THEN h
    ELSE LET par == unwrap(parent(pos))
         IN  IF heap_value_at(h, pos) > heap_value_at(h, par)
             THEN sift_up(swap(h, pos, par), par)
             ELSE h

RECURSIVE sift_down(_, _)
sift_down(h, pos) ==
    LET l == left(h, pos)
        r == right(h, pos)
        largest1 == IF is_some(l) /\ heap_value_at(h, unwrap(l)) > heap_value_at(h, pos)
                    THEN unwrap(l) ELSE pos
        largest_idx == IF is_some(r) /\ heap_value_at(h, unwrap(r)) > heap_value_at(h, largest1)
                       THEN unwrap(r) ELSE largest1
    IN  IF largest_idx # pos THEN sift_down(swap(h, pos, largest_idx), largest_idx) ELSE h

\* update_value(var, |_| new_value): the closure is applied by the caller
heap_update_value(h, v, new_value) ==
    LET orig_value == h.values[v]
        h1 == [h EXCEPT !.values[v] = new_value]
    IN  IF is_some(h.positions[v])
        THEN IF new_value >= orig_value THEN sift_up(h1, unwrap(h.positions[v]))
             ELSE sift_down(h1, unwrap(h.positions[v]))
        ELSE h1

heap_add(h, v) ==
    IF is_some(h.positions[v]) THEN h
    ELSE LET idx == Len(h.heap)
         IN  sift_up([h EXCEPT !.heap = Append(h.heap, v), !.positions[v] = Some(idx)], idx)

heap_add_and_set(h, v, value) ==
    IF is_some(h.positions[v]) THEN heap_update_value(h, v, value)
    ELSE heap_add([h EXCEPT !.values[v] = value], v)

\* Vec::swap_remove(pos): the last element takes the place of the removed one
swap_remove(seq, pos) ==
    LET last == Len(seq)
    IN  IF pos + 1 = last THEN SubSeq(seq, 1, last - 1)
        ELSE SubSeq([seq EXCEPT ![pos + 1] = seq[last]], 1, last - 1)

heap_remove(h, v) ==
    IF h.positions[v] = None THEN h
    ELSE LET pos == unwrap(h.positions[v])
             h1 == [h EXCEPT !.positions[v] = None, !.heap = swap_remove(h.heap, pos)]
         IN  IF pos >= Len(h1.heap) THEN h1
             ELSE sift_down([h1 EXCEPT !.positions[heap_at(h1, pos)] = Some(pos)], pos)

\* pop: the heap after the removal of peek()
heap_pop(h) == IF h.heap = <<>> THEN h ELSE heap_remove(h, h.heap[1])

contained(h, v) == is_some(h.positions[v])

heap_clear(h) ==
    [values |-> [v \in DOMAIN h.values |-> 0],
     heap |-> <<>>,
     positions |-> [v \in DOMAIN h.positions |-> None]]

heap_rescale(h, num, den) ==
    [h EXCEPT !.values = [v \in DOMAIN h.values |-> (h.values[v] * num) \div den]]

----------------------------------------------------------------------------
(* incdet/vsids.rs: the scores are multiples of 1 / 19^MaxLearnt, so that  *)
(* the division of the bump by DECAY_INITIAL = 19/20 is exact              *)

BUMP_INITIAL == Pow(19, MaxLearnt)
DECAY_NUM == 19
DECAY_DEN == 20
\* f64::MAX / 16 is far above every score that MaxLearnt conflicts can
\* build; the limit of the model stands for it and is above them as well
RESCALE_LIMIT == Pow(2, 30)

VsidsDefault == [heap |-> VarHeapDefault, bump |-> BUMP_INITIAL]

vsids_set_var_count(vs, count) == [vs EXCEPT !.heap = heap_set_var_count(vs.heap, count)]

vsids_peek(vs) == heap_peek(vs.heap)

vsids_rescale(vs) ==
    [heap |-> heap_rescale(vs.heap, 1, RESCALE_LIMIT), bump |-> vs.bump \div RESCALE_LIMIT]

bump(vs, v) ==
    LET new_value == vs.heap.values[v] + vs.bump
    IN  Let([vs EXCEPT !.heap = heap_update_value(vs.heap, v, new_value)],
            LAMBDA vs1 : IF new_value >= RESCALE_LIMIT THEN vsids_rescale(vs1) ELSE vs1)

\* decay that leaves the increment of VSIDS as it is
decay_keeps_bump(vs) == vs

decay(vs) ==
    LET vs1 == [vs EXCEPT !.bump = (vs.bump * DECAY_DEN) \div DECAY_NUM]
    IN  IF vs1.bump >= RESCALE_LIMIT THEN vsids_rescale(vs1) ELSE vs1

vsids_add(vs, v) == [vs EXCEPT !.heap = heap_add(vs.heap, v)]
vsids_remove(vs, v) == [vs EXCEPT !.heap = heap_remove(vs.heap, v)]


----------------------------------------------------------------------------
(* incdet/propagation/trail.rs *)

ROOT == 0
successor(lvl) == lvl + 1
\* is_root that takes the first decision level for the root as well
is_root_first_level(lvl) == lvl <= ROOT + 1
is_root(lvl) == lvl = ROOT

TrailDefault == [trail |-> <<>>, decisions |-> <<>>]

trail_push(tr, lit) == [tr EXCEPT !.trail = Append(tr.trail, lit)]

decision_level(tr) == Len(tr.decisions)

add_decision(tr, lit) ==
    LET trail_idx == Len(tr.trail)
    IN  [trail |-> Append(tr.trail, lit), decisions |-> Append(tr.decisions, trail_idx)]

iter_decisions(tr) == [i \in 1..Len(tr.decisions) |-> tr.trail[tr.decisions[i] + 1]]

is_decision(tr, lit) == \E i \in 1..Len(tr.decisions) : iter_decisions(tr)[i] = lit

\* the literals handed to the callback, in the order of the calls
trail_backtrack_callbacks(tr, lvl) ==
    LET trail_idx == tr.decisions[lvl + 1]
        n == Len(tr.trail) - trail_idx
    IN  [i \in 1..n |-> tr.trail[Len(tr.trail) + 1 - i]]

\* Trail::backtrack_to that truncates the decisions one entry late
trail_backtrack_to_late(tr, lvl) ==
    LET trail_idx == tr.decisions[lvl + 1]
    IN  [trail |-> SubSeq(tr.trail, 1, trail_idx),
         decisions |-> SubSeq(tr.decisions, 1, lvl + 1)]

trail_backtrack_to(tr, lvl) ==
    LET trail_idx == tr.decisions[lvl + 1]
    IN  [trail |-> SubSeq(tr.trail, 1, trail_idx),
         decisions |-> SubSeq(tr.decisions, 1, lvl)]

----------------------------------------------------------------------------
(* incdet/skolem.rs: Implications is a BTreeMap from DecLvl to Vec<ClauseId>, *)
(* here a function on the set of its keys                                    *)

ImplicationsDefault == [lvl \in {} |-> <<>>]

add_implication(imp, clause_id, lvl) ==
    IF lvl \in DOMAIN imp THEN [imp EXCEPT ![lvl] = Append(@, clause_id)]
    ELSE imp @@ (lvl :> <<clause_id>>)

RECURSIVE ConcatLevels(_, _)
ConcatLevels(imp, lvls) ==
    IF lvls = {} THEN <<>>
    ELSE LET m == CHOOSE x \in lvls : \A y \in lvls : x <= y
         IN  imp[m] \o ConcatLevels(imp, lvls \ {m})

implications(imp) == ConcatLevels(imp, DOMAIN imp)

imp_len(imp) == Len(implications(imp))

RECURSIVE SumLens(_, _)
SumLens(alloc, cids) ==
    IF cids = <<>> THEN 0 ELSE Len(alloc[Head(cids) + 1]) + SumLens(alloc, Tail(cids))

lit_count(imp, alloc) == SumLens(alloc, implications(imp))

\* Implications::backtrack_to that splits at lvl instead of its successor
imp_backtrack_to_at_level(imp, lvl) == [l \in {k \in DOMAIN imp : k < lvl} |-> imp[l]]

\* BTreeMap::split_off(&lvl.successor()): the entries below the key stay
imp_backtrack_to(imp, lvl) == [l \in {k \in DOMAIN imp : k < successor(lvl)} |-> imp[l]]

\* the backtracking of the Skolem sets that removes nothing
skolem_backtrack_to_keeps_all(skolem, lvl) == skolem

\* the backtracking of the Skolem sets that empties every set
skolem_backtrack_to_clears(skolem, lvl) == [l \in DOMAIN skolem |-> ImplicationsDefault]

skolem_backtrack_to(skolem, lvl) == [l \in DOMAIN skolem |-> imp_backtrack_to(skolem[l], lvl)]

----------------------------------------------------------------------------
(* incdet/graph.rs *)

Impl(lit, clause, dec_lvl) == [lit |-> lit, clause |-> clause, dec_lvl |-> dec_lvl]

graph_backtrack_to(graph, lvl) ==
    [l \in DOMAIN graph |-> SelectSeq(graph[l], LAMBDA imp : imp.dec_lvl <= lvl)]

----------------------------------------------------------------------------
(* incdet/watch.rs *)

WatchListDefault == [enabled |-> FALSE, watches |-> EmptyVec]

add_watch(wl, lit, clause) == [wl EXCEPT !.watches[lit] = Append(@, clause)]

watches_clear(wl) == [enabled |-> FALSE, watches |-> [l \in DOMAIN wl.watches |-> <<>>]]

----------------------------------------------------------------------------
(* sat.rs, sat/varisat.rs: the oracle.  A literal of the oracle is a       *)
(* nonzero integer (DIMACS), a clause a set of literals, the formula a     *)
(* set of clauses.                                                          *)

VarisatDefault == [clauses |-> {}, new_lit |-> 0]

\* Varisat::add_variable: the literal returned
varisat_new_variable(sat) == sat.new_lit + 1
varisat_add_variable(sat) == [sat EXCEPT !.new_lit = @ + 1]
varisat_add_clause(sat, lits) == [sat EXCEPT !.clauses = @ \cup {lits}]

LookupSolverDefault == [sat_solver |-> VarisatDefault, var_lookup |-> EmptyVec]

lookup_set_var_count(ls, count) == [ls EXCEPT !.var_lookup = resize(ls.var_lookup, count, None)]

\* LookupSolver::forget that keeps the oracle variable of the variable
forget_keeps_lookup(ls, v) == ls

forget(ls, v) == [ls EXCEPT !.var_lookup[v] = None]

\* LookupSolver::lookup: the solver after the call and the literal returned
lookup_solver(ls, lit) ==
    IF is_some(ls.var_lookup[var(lit)]) THEN ls
    ELSE [sat_solver |-> varisat_add_variable(ls.sat_solver),
          var_lookup |-> [ls.var_lookup EXCEPT ![var(lit)] =
                              Some(varisat_new_variable(ls.sat_solver))]]
lookup_lit(ls, lit) ==
    LET sat_var == unwrap(lookup_solver(ls, lit).var_lookup[var(lit)])
    IN  IF is_negative(lit) THEN -sat_var ELSE sat_var

ls_add_variable(ls) == [ls EXCEPT !.sat_solver = varisat_add_variable(ls.sat_solver)]
ls_new_variable(ls) == varisat_new_variable(ls.sat_solver)
ls_add_clause(ls, lits) == [ls EXCEPT !.sat_solver = varisat_add_clause(ls.sat_solver, lits)]

\* the clauses left after lit is made true
AssignLit(cs, lit) == {c \ {-lit} : c \in {d \in cs : lit \notin d}}

RECURSIVE AssignAll(_, _)
AssignAll(cs, lits) ==
    IF lits = {} THEN cs
    ELSE LET l == CHOOSE x \in lits : TRUE
         IN  AssignAll(AssignLit(cs, l), lits \ {l})

\* satisfiability of a set of clauses: unit propagation, pure literals, split
RECURSIVE Satisfiable(_)
Satisfiable(cs) ==
    IF cs = {} THEN TRUE
    ELSE IF {} \in cs THEN FALSE
    ELSE LET units == UNION {c \in cs : Cardinality(c) = 1}
             lits == UNION cs
             pure == {l \in lits : -l \notin lits}
         IN  IF units # {}
             THEN IF \E l \in units : -l \in units THEN FALSE
                  ELSE Satisfiable(AssignAll(cs, units))
             ELSE IF pure # {} THEN Satisfiable({c \in cs : c \cap pure = {}})
             ELSE LET l == CHOOSE x \in lits : TRUE
                  IN  Satisfiable(AssignLit(cs, l)) \/ Satisfiable(AssignLit(cs, -l))

\* solve_with_assumptions
solve_with_assumptions(sat, assumptions) ==
    IF \E l \in assumptions : -l \in assumptions THEN FALSE
    ELSE Satisfiable(AssignAll(sat.clauses, assumptions))

\* the variables of the oracle the formula and the assumptions mention
SatVars(sat, assumptions) ==
    {IF l < 0 THEN -l ELSE l : l \in UNION sat.clauses \cup assumptions}

\* LookupSolver::orig_model for every model the oracle may return: the
\* sets of literals of the looked-up variables that extend to a model
orig_models(ls, assumptions) ==
    LET mentioned == SatVars(ls.sat_solver, assumptions)
        looked == {v \in DOMAIN ls.var_lookup :
                      /\ is_some(ls.var_lookup[v])
                      /\ unwrap(ls.var_lookup[v]) \in mentioned}
        base == IF \E l \in assumptions : -l \in assumptions THEN {{}}
                ELSE AssignAll(ls.sat_solver.clauses, assumptions)
        fixed(pos) == {IF v \in pos THEN unwrap(ls.var_lookup[v])
                       ELSE -unwrap(ls.var_lookup[v]) : v \in looked}
        consistent(pos) == \A l \in fixed(pos) : -l \notin assumptions
    IN  {{IF v \in pos THEN positive(v) ELSE negative(v) : v \in looked} :
            pos \in {q \in SUBSET looked :
                        consistent(q) /\ Satisfiable(AssignAll(base, fixed(q)))}}


----------------------------------------------------------------------------
(* incdet/conflict/check.rs: ConflictCheck; assumptions is a BTreeMap from *)
(* DecLvl to the assumption literal of the level                            *)

ConflictCheckDefault == [sat_solver |-> LookupSolverDefault, assumptions |-> [l \in {} |-> 0]]

cc_set_var_count(cc, count) == [cc EXCEPT !.sat_solver = lookup_set_var_count(cc.sat_solver, count)]

cc_forget(cc, v) == [cc EXCEPT !.sat_solver = forget(cc.sat_solver, v)]

\* the unit clauses of the assumptions split off
RECURSIVE AddUnits(_, _)
AddUnits(ls, lits) ==
    IF lits = {} THEN ls
    ELSE LET l == CHOOSE x \in lits : TRUE
         IN  AddUnits(ls_add_clause(ls, {-l}), lits \ {l})

\* ConflictCheck::backtrack_to that drops the levels without the unit clauses
cc_backtrack_to_no_units(cc, lvl) ==
    LET off == {k \in DOMAIN cc.assumptions : k >= successor(lvl)}
    IN  [sat_solver |-> cc.sat_solver,
         assumptions |-> [k \in DOMAIN cc.assumptions \ off |-> cc.assumptions[k]]]

cc_backtrack_to(cc, lvl) ==
    LET off == {k \in DOMAIN cc.assumptions : k >= successor(lvl)}
    IN  [sat_solver |-> AddUnits(cc.sat_solver, {cc.assumptions[k] : k \in off}),
         assumptions |-> [k \in DOMAIN cc.assumptions \ off |-> cc.assumptions[k]]]

add_definition_clause(cc, lvl, clause) ==
    LET fresh == lvl \notin DOMAIN cc.assumptions
        ls == IF fresh THEN ls_add_variable(cc.sat_solver) ELSE cc.sat_solver
        assumption_lit == IF fresh THEN ls_new_variable(cc.sat_solver) ELSE cc.assumptions[lvl]
    IN  [sat_solver |-> ls_add_clause(ls, clause \cup {-assumption_lit}),
         assumptions |-> IF fresh THEN cc.assumptions @@ (lvl :> assumption_lit)
                         ELSE cc.assumptions]

cc_assumptions(cc, incremental_var) ==
    {cc.assumptions[k] : k \in DOMAIN cc.assumptions} \cup {incremental_var}

\* ConflictCheck::solve: the assignments it may return; empty when it returns None
cc_solve(cc, incremental_var) ==
    IF ~solve_with_assumptions(cc.sat_solver.sat_solver, cc_assumptions(cc, incremental_var))
    THEN {}
    ELSE orig_models(cc.sat_solver, cc_assumptions(cc, incremental_var))

----------------------------------------------------------------------------
(* incdet.rs: the solver *)

\* the flag of the constant propagation, switched on
ENABLE_CONSTANT_PROPAGATION_on == TRUE

ENABLE_CONSTANT_PROPAGATION == FALSE

StatisticsDefault ==
    [decisions |-> 0, conflicts |-> 0, added_clauses |-> 0,
     local_det_checks |-> 0, local_conflict_checks |-> 0, global_conflict_checks |-> 0,
     function_propagations |-> 0, constant_propagations |-> 0]

IncDetDefault ==
    [vars |-> EmptyVec,
     prefix |-> <<>>,
     clauses |-> <<>>,
     allocator |-> <<>>,
     skolem |-> EmptyVec,
     propagation |-> VarHeapDefault,
     constant_propagation |-> <<>>,
     assignment |-> EmptyVec,
     trail |-> TrailDefault,
     watches |-> WatchListDefault,
     graph |-> EmptyVec,
     conflict_analysis |-> [clause |-> <<>>, current_level_count |-> 0],
     conflict_check |-> ConflictCheckDefault,
     dec_lvls |-> EmptyVec,
     vsids |-> VsidsDefault,
     conflicted |-> FALSE,
     stats |-> StatisticsDefault,
     panic |-> None]

\* a panic of the program: the message is kept and the run ends
Panic(sv, msg) == [sv EXCEPT !.panic = Some(msg)]

\* the statements after a call: they are not reached when the call panics
AndThen(sv, Rest(_)) == IF is_some(sv.panic) THEN sv ELSE Rest(sv)

get_var_count(sv) == Cardinality(DOMAIN sv.vars)

set_var_count(sv, count) ==
    [sv EXCEPT !.vars = resize(sv.vars, count, [scope |-> None]),
               !.skolem = resize(sv.skolem, 2 * count, ImplicationsDefault),
               !.assignment = resize(sv.assignment, count, None),
               !.watches.watches = resize(sv.watches.watches, 2 * count, <<>>),
               !.graph = resize(sv.graph, 2 * count, <<>>),
               !.dec_lvls = resize(sv.dec_lvls, count, None),
               !.vsids = vsids_set_var_count(sv.vsids, count),
               !.conflict_check = cc_set_var_count(sv.conflict_check, count),
               !.propagation = heap_set_var_count(sv.propagation, count)]

\* the body of the loop of _quantify for one variable
quantify_var(sv, id, v) ==
    Let(IF v >= get_var_count(sv) THEN set_var_count(sv, v + 1) ELSE sv,
        LAMBDA s1 :
            LET other == IF is_some(s1.vars[v].scope) THEN unwrap(s1.vars[v].scope) ELSE id
            IN  IF other # id
                THEN [s1 EXCEPT !.prefix[other + 1].variables = SelectSeq(@, LAMBDA o : o # v),
                                !.vars[v].scope = Some(id)]
                ELSE [s1 EXCEPT !.vars[v].scope = Some(id)])

RECURSIVE quantify_vars(_, _, _)
quantify_vars(sv, id, vs) ==
    IF vs = <<>> THEN sv ELSE quantify_vars(quantify_var(sv, id, Head(vs)), id, Tail(vs))

quantify(sv, quant, vs) ==
    LET n == Len(sv.prefix)
        extend == n > 0 /\ sv.prefix[n].quantifier = quant
        id == IF extend THEN sv.prefix[n].id ELSE n
        s1 == IF extend THEN [sv EXCEPT !.prefix[n].variables = @ \o vs]
              ELSE [sv EXCEPT !.prefix = Append(@, [id |-> id, quantifier |-> quant,
                                                     variables |-> vs])]
    IN  quantify_vars(s1, id, vs)

\* VarData
scope(sv, v) == unwrap(sv.vars[v].scope)
is_existential(sv, v) == sv.prefix[scope(sv, v) + 1].quantifier = Exists
is_universal(sv, v) == ~is_existential(sv, v)
is_bound(sv, v) == v \in DOMAIN sv.vars /\ is_some(sv.vars[v].scope)

is_assigned(sv, v) == is_some(sv.assignment[v])

skolem_size(sv, lit) == imp_len(sv.skolem[lit]) + imp_len(sv.skolem[negated(lit)])

\* the implication of a clause recorded without queueing its variable
add_skolem_implication_unqueued(sv, lit, clause_id, lvl, reasons) ==
    [sv EXCEPT !.skolem[lit] = add_implication(@, clause_id, lvl),
               !.graph[lit] = @ \o [i \in 1..Len(reasons) |->
                                       Impl(negated(reasons[i]), clause_id, lvl)]]

\* the implication a clause with a single unassigned existential literal gives
add_skolem_implication(sv, lit, clause_id, lvl, reasons) ==
    LET s1 == [sv EXCEPT !.skolem[lit] = add_implication(@, clause_id, lvl)]
    IN  [s1 EXCEPT !.propagation = heap_add_and_set(@, var(lit), skolem_size(s1, lit)),
                   !.graph[lit] = @ \o [i \in 1..Len(reasons) |->
                                           Impl(negated(reasons[i]), clause_id, lvl)]]

\* the watches of a new clause with its implication recorded at the root level
add_clause_watches_at_root(sv, lits, clause_id) ==
    LET unassigned == SelectSeq(lits, LAMBDA l : is_existential(sv, var(l))
                                                  /\ ~is_assigned(sv, var(l)))
    IN  IF unassigned = <<>> THEN Panic(sv, "there is at least one unassigned lit")
        ELSE LET watch1 == unassigned[1]
                 s1 == [sv EXCEPT !.watches = add_watch(@, watch1, clause_id)]
             IN  IF Len(unassigned) >= 2
                 THEN [s1 EXCEPT !.watches = add_watch(@, unassigned[2], clause_id)]
                 ELSE LET lvls == {unwrap(sv.dec_lvls[var(lits[i])]) :
                                      i \in {j \in 1..Len(lits) :
                                                /\ var(lits[j]) # var(watch1)
                                                /\ is_existential(sv, var(lits[j]))
                                                /\ is_some(sv.dec_lvls[var(lits[j])])}}
                      IN  IF lvls = {}
                          THEN Panic(s1, "there is at least one assigned existential literal")
                          ELSE LET max_lvl == Max(lvls)
                                   idx == CHOOSE j \in 1..Len(lits) :
                                            /\ sv.dec_lvls[var(lits[j])] = Some(max_lvl)
                                            /\ \A k \in 1..(j - 1) :
                                                 sv.dec_lvls[var(lits[k])] # Some(max_lvl)
                                   watch2 == lits[idx]
                                   s2 == [s1 EXCEPT !.watches = add_watch(@, watch2, clause_id)]
                               IN  add_skolem_implication(s2, watch1, clause_id, ROOT,
                                                          <<watch2>>)

\* _add_clause, from the watch selection on (long clauses)
add_clause_watches(sv, lits, clause_id) ==
    LET unassigned == SelectSeq(lits, LAMBDA l : is_existential(sv, var(l))
                                                  /\ ~is_assigned(sv, var(l)))
    IN  IF unassigned = <<>> THEN Panic(sv, "there is at least one unassigned lit")
        ELSE LET watch1 == unassigned[1]
                 s1 == [sv EXCEPT !.watches = add_watch(@, watch1, clause_id)]
             IN  IF Len(unassigned) >= 2
                 THEN [s1 EXCEPT !.watches = add_watch(@, unassigned[2], clause_id)]
                 ELSE LET lvls == {unwrap(sv.dec_lvls[var(lits[i])]) :
                                      i \in {j \in 1..Len(lits) :
                                                /\ var(lits[j]) # var(watch1)
                                                /\ is_existential(sv, var(lits[j]))
                                                /\ is_some(sv.dec_lvls[var(lits[j])])}}
                      IN  IF lvls = {}
                          THEN Panic(s1, "there is at least one assigned existential literal")
                          ELSE LET max_lvl == Max(lvls)
                                   idx == CHOOSE j \in 1..Len(lits) :
                                            /\ sv.dec_lvls[var(lits[j])] = Some(max_lvl)
                                            /\ \A k \in 1..(j - 1) :
                                                 sv.dec_lvls[var(lits[k])] # Some(max_lvl)
                                   watch2 == lits[idx]
                                   s2 == [s1 EXCEPT !.watches = add_watch(@, watch2, clause_id)]
                               IN  add_skolem_implication(s2, watch1, clause_id, max_lvl,
                                                          <<watch2>>)

add_clause(sv, input_lits) ==
    IF \E i \in 1..Len(input_lits) : ~is_bound(sv, var(input_lits[i]))
    THEN Panic(sv, "unbound variables are not supported")
    ELSE
    Let(sort_dedup(input_lits), LAMBDA sorted :
        IF \E i \in 1..(Len(sorted) - 1) : sorted[i] = negated(sorted[i + 1])
        THEN sv
        ELSE
        Let({scope(sv, var(sorted[i])) :
                i \in {j \in 1..Len(sorted) : is_existential(sv, var(sorted[j]))}},
            LAMBDA scopes :
        Let(IF scopes # {}
            THEN SelectSeq(sorted, LAMBDA l : scope(sv, var(l)) <= Max(scopes))
            ELSE sorted,
            LAMBDA lits :
        LET clause_id == Len(sv.allocator)
            s1 == [sv EXCEPT !.conflicted = IF scopes # {} THEN @ ELSE TRUE,
                             !.allocator = Append(@, lits)]
            existentials == SelectSeq(lits, LAMBDA l : is_existential(sv, var(l)))
            universals == SelectSeq(lits, LAMBDA l : is_universal(sv, var(l)))
        IN  IF Len(existentials) = 1
            THEN IF ENABLE_CONSTANT_PROPAGATION /\ universals = <<>>
                 THEN [s1 EXCEPT !.skolem[existentials[1]] = add_implication(@, clause_id, ROOT),
                                 !.constant_propagation = Append(@, existentials[1])]
                 ELSE add_skolem_implication(s1, existentials[1], clause_id, ROOT,
                                             universals)
            ELSE IF s1.watches.enabled
                 THEN add_clause_watches([s1 EXCEPT !.clauses = Append(@, clause_id)],
                                         lits, clause_id)
                 ELSE [s1 EXCEPT !.clauses = Append(@, clause_id)])))


build_watchlist_clause(sv, cid) ==
    LET existentials == SelectSeq(sv.allocator[cid + 1], LAMBDA l : is_existential(sv, var(l)))
    IN  IF Len(existentials) < 2
        THEN Panic(sv, "every clause has at least 2 existential variables")
        ELSE [sv EXCEPT !.watches = add_watch(add_watch(@, existentials[1], cid),
                                              existentials[2], cid)]

RECURSIVE build_watchlist_from(_, _)
build_watchlist_from(sv, cids) ==
    IF cids = <<>> \/ is_some(sv.panic) THEN sv
    ELSE build_watchlist_from(build_watchlist_clause(sv, Head(cids)), Tail(cids))

build_watchlist(sv) ==
    build_watchlist_from([sv EXCEPT !.watches = [watches_clear(@) EXCEPT !.enabled = TRUE]],
                         sv.clauses)

\* build_vsids_heap without the filter on the quantifier
RECURSIVE build_vsids_heap_from_unfiltered(_, _)
build_vsids_heap_from_unfiltered(sv, v) ==
    IF v >= get_var_count(sv) THEN sv
    ELSE IF ~is_some(sv.vars[v].scope) THEN Panic(sv, "all variables are bound")
    ELSE build_vsids_heap_from_unfiltered([sv EXCEPT !.vsids = vsids_add(@, v)], v + 1)

RECURSIVE build_vsids_heap_from(_, _)
build_vsids_heap_from(sv, v) ==
    IF v >= get_var_count(sv) THEN sv
    ELSE IF ~is_some(sv.vars[v].scope) THEN Panic(sv, "all variables are bound")
    ELSE IF is_existential(sv, v)
         THEN build_vsids_heap_from([sv EXCEPT !.vsids = vsids_add(@, v)], v + 1)
         ELSE build_vsids_heap_from(sv, v + 1)

build_vsids_heap(sv) == build_vsids_heap_from(sv, 0)

next_decision_variable(sv) == vsids_peek(sv.vsids)

----------------------------------------------------------------------------
(* the local determinism check and the conflict checks *)

clause_dimacs_without(clause, v) == {to_dimacs(l) : l \in {x \in Range(clause) : var(x) # v}}

skolem_clauses(sv, v) ==
    implications(sv.skolem[positive(v)]) \o implications(sv.skolem[negative(v)])

\* has_unique_consequence that returns the answer of the oracle as it is
has_unique_consequence_result(sv, v) ==
    Satisfiable({clause_dimacs_without(sv.allocator[cid + 1], v) :
                    cid \in Range(skolem_clauses(sv, v))})

has_unique_consequence(sv, v) ==
    ~Satisfiable({clause_dimacs_without(sv.allocator[cid + 1], v) :
                     cid \in Range(skolem_clauses(sv, v))})

\* the lookups of a sequence of literals: the solver and the oracle literals
RECURSIVE LookupAll(_, _, _)
LookupAll(ls, lits, acc) ==
    IF lits = <<>> THEN [ls |-> ls, lits |-> acc]
    ELSE LookupAll(lookup_solver(ls, Head(lits)), Tail(lits), acc \cup {lookup_lit(ls, Head(lits))})

RECURSIVE AddClauses(_, _)
AddClauses(ls, cs) ==
    IF cs = {} THEN ls
    ELSE LET c == CHOOSE x \in cs : TRUE
         IN  AddClauses(ls_add_clause(ls, c), cs \ {c})

negate_all(lits) == [i \in 1..Len(lits) |-> negated(lits[i])]

\* a fresh arbiter for the clause: arbiter \/ ~l for each literal l other than lit
arbiter_clause(ls, clause, lit, guard) ==
    LET arbiter == ls_new_variable(ls)
    IN  Let(LookupAll(ls_add_variable(ls),
                      negate_all(SelectSeq(clause, LAMBDA l : l # lit)), {}),
            LAMBDA lk : [ls |-> AddClauses(lk.ls, {guard \cup {arbiter, x} : x \in lk.lits}),
                         arbiter |-> arbiter])

RECURSIVE arbiter_clauses(_, _, _, _, _, _)
arbiter_clauses(ls, alloc, cids, lit, guard, build) ==
    IF cids = <<>> THEN [ls |-> ls, build |-> build]
    ELSE Let(arbiter_clause(ls, alloc[Head(cids) + 1], lit, guard),
             LAMBDA a : arbiter_clauses(a.ls, alloc, Tail(cids), lit, guard,
                                        build \cup {-a.arbiter}))

\* the clauses of the decided literal, without the variable, under one arbiter
RECURSIVE decided_clauses(_, _, _, _, _, _)
decided_clauses(ls, alloc, cids, v, arbiter, guard) ==
    IF cids = <<>> THEN ls
    ELSE Let(LookupAll(ls, SelectSeq(alloc[Head(cids) + 1], LAMBDA l : var(l) # v), {}),
             LAMBDA lk : decided_clauses(ls_add_clause(lk.ls, lk.lits \cup {arbiter} \cup guard),
                                         alloc, Tail(cids), v, arbiter, guard))

\* the body of the loop with the clauses of the decision left without their arbiter
check_polarity_decision_forced(ls, sv, lit, decision, guard) ==
    Let(arbiter_clauses(ls, sv.allocator, implications(sv.skolem[lit]), lit, guard, guard),
        LAMBDA a :
            IF decision = Some(negated(lit))
            THEN LET arbiter == ls_new_variable(a.ls)
                 IN  ls_add_clause(decided_clauses(ls_add_variable(a.ls), sv.allocator,
                                                   implications(sv.skolem[unwrap(decision)]),
                                                   var(lit), arbiter, guard),
                                   a.build \cup {arbiter})
            ELSE ls_add_clause(a.ls, a.build))

\* the body of `for lit in [Lit::positive(var), Lit::negative(var)]` of both checks
check_polarity(ls, sv, lit, decision, guard) ==
    Let(arbiter_clauses(ls, sv.allocator, implications(sv.skolem[lit]), lit, guard, guard),
        LAMBDA a :
            IF decision = Some(negated(lit))
            THEN LET arbiter == ls_new_variable(a.ls)
                 IN  ls_add_clause(decided_clauses(ls_add_variable(a.ls), sv.allocator,
                                                   implications(sv.skolem[unwrap(decision)]),
                                                   var(lit), arbiter, guard),
                                   a.build \cup {-arbiter})
            ELSE ls_add_clause(a.ls, a.build))

\* _is_conflicted with the test of the oracle's answer inverted
is_conflicted_local_inverted(sv, v, decision) ==
    LET ls0 == lookup_set_var_count(LookupSolverDefault, get_var_count(sv))
    IN  ~solve_with_assumptions(
            check_polarity(check_polarity(ls0, sv, positive(v), decision, {}),
                           sv, negative(v), decision, {}).sat_solver, {})

\* _is_conflicted(var, decision, false): whether the fresh solver is satisfiable
is_conflicted_local(sv, v, decision) ==
    LET ls0 == lookup_set_var_count(LookupSolverDefault, get_var_count(sv))
    IN  solve_with_assumptions(
            check_polarity(check_polarity(ls0, sv, positive(v), decision, {}),
                           sv, negative(v), decision, {}).sat_solver, {})

\* is_conflicted_incremental with the clauses of the positive literal only
is_conflicted_incremental_check_positive(sv, v, decision) ==
    LET incremental_var == ls_new_variable(sv.conflict_check.sat_solver)
        ls0 == ls_add_variable(sv.conflict_check.sat_solver)
    IN  [sv.conflict_check EXCEPT !.sat_solver =
            check_polarity(ls0, sv, positive(v), decision, {-incremental_var})]

\* is_conflicted_incremental: the conflict check after the clauses are added
is_conflicted_incremental_check(sv, v, decision) ==
    LET incremental_var == ls_new_variable(sv.conflict_check.sat_solver)
        ls0 == ls_add_variable(sv.conflict_check.sat_solver)
    IN  [sv.conflict_check EXCEPT !.sat_solver =
            check_polarity(check_polarity(ls0, sv, positive(v), decision, {-incremental_var}),
                           sv, negative(v), decision, {-incremental_var})]

\* is_conflicted_incremental: the assignments it may return (none: it returns None)
is_conflicted_incremental_results(sv, v, decision) ==
    cc_solve(is_conflicted_incremental_check(sv, v, decision),
             ls_new_variable(sv.conflict_check.sat_solver))

\* is_conflicted: the assignments it may return (none: it returns None)
is_conflicted_results(sv, v, decision) ==
    IF ~is_conflicted_local(sv, v, decision) THEN {}
    ELSE is_conflicted_incremental_results(sv, v, decision)

\* is_conflicted with the global check run whatever the local check answers
is_conflicted_global_always(sv, v, decision) ==
    [sv EXCEPT !.stats.local_conflict_checks = @ + 1,
               !.stats.global_conflict_checks = @ + 1,
               !.conflict_check = is_conflicted_incremental_check(sv, v, decision),
               !.stats.conflicts =
                   IF is_conflicted_incremental_results(sv, v, decision) # {}
                   THEN @ + 1 ELSE @]

\* is_conflicted: the solver after the call
is_conflicted(sv, v, decision) ==
    LET s1 == [sv EXCEPT !.stats.local_conflict_checks = @ + 1]
    IN  IF ~is_conflicted_local(sv, v, decision) THEN s1
        ELSE [s1 EXCEPT !.stats.global_conflict_checks = @ + 1,
                        !.conflict_check = is_conflicted_incremental_check(sv, v, decision),
                        !.stats.conflicts =
                            IF is_conflicted_incremental_results(sv, v, decision) # {}
                            THEN @ + 1 ELSE @]


----------------------------------------------------------------------------
(* assignment of a literal *)

assign_constant(sv, lit) ==
    [sv EXCEPT !.assignment[var(lit)] = Some(IF is_positive(lit) THEN "True" ELSE "False")]

assign_function(sv, lit) ==
    [sv EXCEPT !.assignment[var(lit)] =
        Some(IF is_positive(lit) THEN "PositiveImplications" ELSE "NegativeImplications")]

\* the definition clauses of add_definition_to_conflict_check
RECURSIVE add_definitions(_, _, _, _)
add_definitions(cc, alloc, cids, lvl) ==
    IF cids = <<>> THEN cc
    ELSE Let(LookupAll(cc.sat_solver, alloc[Head(cids) + 1], {}),
             LAMBDA lk : add_definitions(
                             add_definition_clause([cc EXCEPT !.sat_solver = lk.ls], lvl, lk.lits),
                             alloc, Tail(cids), lvl))

RECURSIVE add_arbiter_definitions(_, _, _, _)
add_arbiter_definitions(cc, lvl, arbiter, lits) ==
    IF lits = <<>> THEN cc
    ELSE LET l == lookup_lit(cc.sat_solver, Head(lits))
             cc1 == [cc EXCEPT !.sat_solver = lookup_solver(cc.sat_solver, Head(lits))]
         IN  add_arbiter_definitions(add_definition_clause(cc1, lvl, {arbiter, l}),
                                     lvl, arbiter, Tail(lits))

\* the constraint of the decided literal: the conflict check and the clause built
RECURSIVE add_decided(_, _, _, _, _, _)
add_decided(cc, alloc, cids, lit, lvl, build) ==
    IF cids = <<>> THEN [cc |-> cc, build |-> build]
    ELSE LET clause == alloc[Head(cids) + 1]
             others == negate_all(SelectSeq(clause, LAMBDA l : l # lit))
         IN  IF Len(clause) = 2
             THEN add_decided([cc EXCEPT !.sat_solver = lookup_solver(cc.sat_solver, others[1])],
                              alloc, Tail(cids), lit, lvl,
                              build \cup {lookup_lit(cc.sat_solver, others[1])})
             ELSE LET arbiter == ls_new_variable(cc.sat_solver)
                      cc1 == [cc EXCEPT !.sat_solver = ls_add_variable(cc.sat_solver)]
                  IN  add_decided(add_arbiter_definitions(cc1, lvl, arbiter, others),
                                  alloc, Tail(cids), lit, lvl, build \cup {-arbiter})

add_definition_to_conflict_check(sv, lit, decided) ==
    LET lvl == decision_level(sv.trail)
    IN  Let(add_definitions(sv.conflict_check, sv.allocator,
                            implications(sv.skolem[lit])
                                \o implications(sv.skolem[negated(lit)]), lvl),
            LAMBDA cc1 :
                IF ~decided THEN [sv EXCEPT !.conflict_check = cc1]
                ELSE LET first == lookup_lit(cc1.sat_solver, negated(lit))
                         cc2 == [cc1 EXCEPT !.sat_solver =
                                    lookup_solver(cc1.sat_solver, negated(lit))]
                     IN  Let(add_decided(cc2, sv.allocator, implications(sv.skolem[lit]),
                                         lit, lvl, {first}),
                             LAMBDA d : [sv EXCEPT !.conflict_check =
                                            add_definition_clause(d.cc, lvl, d.build)]))

watches_clause(sv, l, cid) == \E i \in 1..Len(sv.watches.watches[l]) : sv.watches.watches[l][i] = cid

\* the closure of retain that keeps the old watch when it adds a new one
propagate_watch_keeps_old(sv, v, cid) ==
    LET clause == sv.allocator[cid + 1]
        candidates == SelectSeq(clause, LAMBDA l : /\ is_existential(sv, var(l))
                                                   /\ ~is_assigned(sv, var(l))
                                                   /\ var(l) # v)
        unwatched == SelectSeq(candidates, LAMBDA l : ~watches_clause(sv, l, cid))
        watched == SelectSeq(candidates, LAMBDA l : watches_clause(sv, l, cid))
        propagated == SelectSeq(clause, LAMBDA l : var(l) = v)
    IN  IF unwatched # <<>>
        THEN [sv |-> [sv EXCEPT !.watches = add_watch(@, unwatched[1], cid)], keep |-> TRUE]
        ELSE IF propagated = <<>>
        THEN [sv |-> Panic(sv, "this is the propagated literal"), keep |-> TRUE]
        ELSE IF watched = <<>> THEN [sv |-> sv, keep |-> TRUE]
        ELSE [sv |-> add_skolem_implication(sv, watched[1], cid, decision_level(sv.trail),
                                            <<propagated[1]>>),
              keep |-> TRUE]

\* the closure of retain that records the new implication at the root level
propagate_watch_at_root(sv, v, cid) ==
    LET clause == sv.allocator[cid + 1]
        candidates == SelectSeq(clause, LAMBDA l : /\ is_existential(sv, var(l))
                                                   /\ ~is_assigned(sv, var(l))
                                                   /\ var(l) # v)
        unwatched == SelectSeq(candidates, LAMBDA l : ~watches_clause(sv, l, cid))
        watched == SelectSeq(candidates, LAMBDA l : watches_clause(sv, l, cid))
        propagated == SelectSeq(clause, LAMBDA l : var(l) = v)
    IN  IF unwatched # <<>>
        THEN [sv |-> [sv EXCEPT !.watches = add_watch(@, unwatched[1], cid)], keep |-> FALSE]
        ELSE IF propagated = <<>>
        THEN [sv |-> Panic(sv, "this is the propagated literal"), keep |-> TRUE]
        ELSE IF watched = <<>> THEN [sv |-> sv, keep |-> TRUE]
        ELSE [sv |-> add_skolem_implication(sv, watched[1], cid, ROOT, <<propagated[1]>>),
              keep |-> TRUE]

\* the closure of watches.retain in propagate_function for one watch:
\* the solver after the call and whether the watch is kept
propagate_watch(sv, v, cid) ==
    LET clause == sv.allocator[cid + 1]
        candidates == SelectSeq(clause, LAMBDA l : /\ is_existential(sv, var(l))
                                                   /\ ~is_assigned(sv, var(l))
                                                   /\ var(l) # v)
        unwatched == SelectSeq(candidates, LAMBDA l : ~watches_clause(sv, l, cid))
        watched == SelectSeq(candidates, LAMBDA l : watches_clause(sv, l, cid))
        propagated == SelectSeq(clause, LAMBDA l : var(l) = v)
    IN  IF unwatched # <<>>
        THEN [sv |-> [sv EXCEPT !.watches = add_watch(@, unwatched[1], cid)], keep |-> FALSE]
        ELSE IF propagated = <<>>
        THEN [sv |-> Panic(sv, "this is the propagated literal"), keep |-> TRUE]
        ELSE IF watched = <<>> THEN [sv |-> sv, keep |-> TRUE]
        ELSE [sv |-> add_skolem_implication(sv, watched[1], cid, decision_level(sv.trail),
                                            <<propagated[1]>>),
              keep |-> TRUE]

RECURSIVE propagate_watches(_, _, _, _)
propagate_watches(sv, v, watches, kept) ==
    IF watches = <<>> \/ is_some(sv.panic) THEN [sv |-> sv, kept |-> kept]
    ELSE Let(propagate_watch(sv, v, Head(watches)),
             LAMBDA r : propagate_watches(r.sv, v, Tail(watches),
                                          IF r.keep THEN Append(kept, Head(watches)) ELSE kept))

\* the body of `for lit in [Lit::positive(var), Lit::negative(var)]`
propagate_function_lit(sv, v, lit) ==
    Let(propagate_watches([sv EXCEPT !.watches.watches[lit] = <<>>], v,
                          sv.watches.watches[lit], <<>>),
        LAMBDA r : [r.sv EXCEPT !.watches.watches[lit] = r.kept])

propagate_function(sv, v) ==
    AndThen(propagate_function_lit(
                [sv EXCEPT !.stats.function_propagations = @ + 1,
                           !.dec_lvls[v] = Some(decision_level(sv.trail))],
                v, positive(v)),
            LAMBDA s2 : propagate_function_lit(s2, v, negative(v)))

\* the closure of propagate_constant is todo!()
propagate_constant(sv, lit) ==
    LET s1 == [sv EXCEPT !.stats.constant_propagations = @ + 1,
                         !.dec_lvls[var(lit)] = Some(decision_level(sv.trail))]
    IN  IF s1.watches.watches[negated(lit)] # <<>> THEN Panic(s1, "not yet implemented")
        ELSE [s1 EXCEPT !.watches.watches[lit] = <<>>]

\* assign_and_propagate that leaves the assigned variable in the VSIDS heap
assign_and_propagate_keeps_heap(sv, lit, decided, constant) ==
    LET s1 == [sv EXCEPT !.trail = IF decided THEN add_decision(@, lit)
                                   ELSE trail_push(@, lit)]
        s2 == IF constant THEN assign_constant(s1, lit) ELSE assign_function(s1, lit)
    IN  Let(add_definition_to_conflict_check(s2, lit, decided),
            LAMBDA s4 : IF constant THEN propagate_constant(s4, lit)
                        ELSE propagate_function(s4, var(lit)))

assign_and_propagate(sv, lit, decided, constant) ==
    LET s1 == [sv EXCEPT !.trail = IF decided THEN add_decision(@, lit)
                                   ELSE trail_push(@, lit)]
        s2 == IF constant THEN assign_constant(s1, lit) ELSE assign_function(s1, lit)
    IN  Let(add_definition_to_conflict_check(
                [s2 EXCEPT !.vsids = vsids_remove(@, var(lit))], lit, decided),
            LAMBDA s4 : IF constant THEN propagate_constant(s4, lit)
                        ELSE propagate_function(s4, var(lit)))

\* the callback of backtrack_to without the reset of the decision level
unassign_lit_keeps_level(sv, assigned_lit) ==
    IF ~is_assigned(sv, var(assigned_lit)) THEN Panic(sv, "old_value.is_some()")
    ELSE [sv EXCEPT !.assignment[var(assigned_lit)] = None,
                    !.vsids = vsids_add(@, var(assigned_lit)),
                    !.conflict_check = cc_forget(@, var(assigned_lit))]

\* the callback of Trail::backtrack_to that leaves the value of the variable
unassign_lit_keeps_value(sv, assigned_lit) ==
    IF ~is_assigned(sv, var(assigned_lit)) THEN Panic(sv, "old_value.is_some()")
    ELSE [sv EXCEPT !.vsids = vsids_add(@, var(assigned_lit)),
                    !.conflict_check = cc_forget(@, var(assigned_lit))]

\* the callback of Trail::backtrack_to for one literal
unassign_lit(sv, assigned_lit) ==
    IF ~is_assigned(sv, var(assigned_lit)) THEN Panic(sv, "old_value.is_some()")
    ELSE [sv EXCEPT !.assignment[var(assigned_lit)] = None,
                    !.dec_lvls[var(assigned_lit)] = None,
                    !.vsids = vsids_add(@, var(assigned_lit)),
                    !.conflict_check = cc_forget(@, var(assigned_lit))]

RECURSIVE unassign_all(_, _)
unassign_all(sv, lits) ==
    IF lits = <<>> \/ is_some(sv.panic) THEN sv
    ELSE unassign_all(unassign_lit(sv, Head(lits)), Tail(lits))

backtrack_to(sv, lvl) ==
    IF lvl >= Len(sv.trail.decisions) THEN Panic(sv, "index out of bounds")
    ELSE AndThen(unassign_all(sv, trail_backtrack_callbacks(sv.trail, lvl)),
                 LAMBDA s1 : [s1 EXCEPT !.trail = trail_backtrack_to(sv.trail, lvl),
                                        !.skolem = skolem_backtrack_to(@, lvl),
                                        !.propagation = heap_clear(@),
                                        !.graph = graph_backtrack_to(@, lvl),
                                        !.conflict_check = cc_backtrack_to(@, lvl)])


----------------------------------------------------------------------------
(* incdet/conflict/analysis.rs *)

Conflict(v, assignment) == [var |-> v, assignment |-> assignment]

\* Clause::is_implied(lit, assignment): the clause forces lit under the
\* witness.  The witness holds the literals that are true in the oracle's
\* model (analyze skips an antecedent as satisfied when one of its literals
\* is a member), so the clause forces lit when every other literal of the
\* clause is false in it, i.e. has its negation in the witness.  With plain
\* membership of the other literals the test unsat_2 of incdet/test.rs
\* stops at the assert_eq of analyze instead of returning Unsatisfiable.
is_implied(clause, lit, assignment) ==
    \A i \in 1..Len(clause) :
        clause[i] # lit => negated(clause[i]) \in assignment

dec_lvl_or_root(sv, lit) ==
    IF is_some(sv.dec_lvls[var(lit)]) THEN unwrap(sv.dec_lvls[var(lit)]) ELSE ROOT

add_literal(sv, lit) ==
    IF lit \in Range(sv.conflict_analysis.clause) THEN sv
    ELSE LET s1 == [sv EXCEPT !.conflict_analysis.clause = Append(@, lit)]
         IN  IF is_universal(sv, var(lit)) THEN s1
             ELSE IF sv.dec_lvls[var(lit)] = None
             THEN Panic(s1, "there has to be at least one implication graph entry for deterministic existentials")
             ELSE [s1 EXCEPT !.conflict_analysis.current_level_count =
                                 IF unwrap(sv.dec_lvls[var(lit)]) = decision_level(sv.trail)
                                 THEN @ + 1 ELSE @,
                             !.vsids = bump(@, var(lit))]

RECURSIVE add_literals(_, _)
add_literals(sv, lits) ==
    IF lits = <<>> \/ is_some(sv.panic) THEN sv
    ELSE add_literals(add_literal(sv, Head(lits)), Tail(lits))

\* get_backtrack_level without the filter on the level
get_backtrack_level_unfiltered(sv, current_lvl) ==
    LET lvls == {dec_lvl_or_root(sv, l) : l \in Range(sv.conflict_analysis.clause)}
    IN  IF lvls = {} THEN ROOT ELSE Max(lvls)

\* get_backtrack_level that returns the level it is asked to leave out
get_backtrack_level_current(sv, current_lvl) == current_lvl

get_backtrack_level(sv, current_lvl) ==
    LET lvls == {dec_lvl_or_root(sv, l) : l \in Range(sv.conflict_analysis.clause)}
                    \ {current_lvl}
    IN  IF lvls = {} THEN ROOT ELSE Max(lvls)

clause_max_dec_lvl(sv) ==
    LET lvls == {dec_lvl_or_root(sv, l) : l \in Range(sv.conflict_analysis.clause)}
    IN  IF lvls = {} THEN ROOT ELSE Max(lvls)

\* one of the two loops of the nucleus: the first implication of lit whose
\* clause has no literal in the assignment of the conflict
nucleus(sv, cf, lit) ==
    LET open == SelectSeq(sv.graph[lit],
                          LAMBDA imp : Range(sv.allocator[imp.clause + 1]) \cap cf.assignment = {})
    IN  IF open = <<>> THEN sv
        ELSE add_literals(sv, SelectSeq(sv.allocator[open[1].clause + 1], LAMBDA l : l # lit))

\* the results of is_literal_redundant: the recursion of the program does
\* not return when the implications of the literals form a cycle
Redundant == "redundant"
NotRedundant == "not redundant"
Overflow == "stack overflow"

\* the premises is_literal_redundant visits for lit, in the order of the visits
RECURSIVE premises_of(_, _, _, _)
premises_of(sv, imps, lit, cf) ==
    IF imps = <<>> THEN <<>>
    ELSE LET reason == sv.allocator[Head(imps).clause + 1]
         IN  (IF is_implied(reason, lit, cf.assignment)
              THEN SelectSeq(reason, LAMBDA l : l # lit) ELSE <<>>)
             \o premises_of(sv, Tail(imps), lit, cf)

\* is_literal_redundant that takes every existential literal for redundant
is_literal_redundant_existential(sv, lit, cf, fuel) ==
    IF is_universal(sv, var(lit)) THEN NotRedundant ELSE Redundant

RECURSIVE is_literal_redundant(_, _, _, _)
RECURSIVE all_redundant(_, _, _, _)
is_literal_redundant(sv, lit, cf, fuel) ==
    IF fuel = 0 THEN Overflow
    ELSE IF is_universal(sv, var(lit)) THEN NotRedundant
    ELSE IF is_decision(sv.trail, lit) THEN NotRedundant
    ELSE all_redundant(sv, premises_of(sv, sv.graph[negated(lit)], negated(lit), cf),
                       cf, fuel - 1)
all_redundant(sv, premises, cf, fuel) ==
    IF premises = <<>> THEN Redundant
    ELSE Let(is_literal_redundant(sv, Head(premises), cf, fuel),
             LAMBDA r : IF r = Redundant THEN all_redundant(sv, Tail(premises), cf, fuel)
                        ELSE r)

\* a chain of more premises than there are literals repeats a literal
RecursionDepth(sv) == 2 * get_var_count(sv) + 1

\* minimize_learnt_clause that removes the literals below the current level unchecked
minimize_learnt_clause_unchecked(sv, cf) ==
    [sv EXCEPT !.conflict_analysis.clause =
        SelectSeq(@, LAMBDA l : dec_lvl_or_root(sv, l) = decision_level(sv.trail))]

minimize_learnt_clause(sv, cf) ==
    LET checked == SelectSeq(sv.conflict_analysis.clause,
                             LAMBDA l : dec_lvl_or_root(sv, l) # decision_level(sv.trail))
        verdict(l) == is_literal_redundant(sv, l, cf, RecursionDepth(sv))
    IN  IF \E i \in 1..Len(checked) :
               /\ verdict(checked[i]) = Overflow
               /\ \A j \in 1..(i - 1) : verdict(checked[j]) # Overflow
        THEN Panic(sv, Overflow)
        ELSE [sv EXCEPT !.conflict_analysis.clause =
                 SelectSeq(@, LAMBDA l : ~(/\ dec_lvl_or_root(sv, l) # decision_level(sv.trail)
                                           /\ verdict(l) = Redundant))]

\* the body of the trail loop without the decrement of current_level_count
resolve_trail_lit_keeps_count(sv, cf, trail_lit) ==
    LET ca == sv.conflict_analysis
    IN  IF ~\E l \in Range(ca.clause) : var(l) = var(trail_lit) THEN sv
        ELSE LET lit == IF trail_lit \in Range(ca.clause) THEN negated(trail_lit) ELSE trail_lit
                 implied == SelectSeq(sv.graph[lit],
                                LAMBDA imp : is_implied(sv.allocator[imp.clause + 1], lit,
                                                        cf.assignment))
             IN  IF implied = <<>> THEN sv
                 ELSE LET reason == sv.allocator[implied[1].clause + 1]
                          s1 == [sv EXCEPT !.conflict_analysis.clause =
                                               SelectSeq(@, LAMBDA l : var(l) # var(lit))]
                      IN  add_literals(s1, SelectSeq(reason, LAMBDA l : var(l) # var(lit)))

\* the body of `for &lit in self.trail.iter().rev()` for one literal of the trail
resolve_trail_lit(sv, cf, trail_lit) ==
    LET ca == sv.conflict_analysis
    IN  IF ~\E l \in Range(ca.clause) : var(l) = var(trail_lit) THEN sv
        ELSE LET lit == IF trail_lit \in Range(ca.clause) THEN negated(trail_lit) ELSE trail_lit
                 implied == SelectSeq(sv.graph[lit],
                                LAMBDA imp : is_implied(sv.allocator[imp.clause + 1], lit,
                                                        cf.assignment))
             IN  IF implied = <<>> THEN sv
                 ELSE LET reason == sv.allocator[implied[1].clause + 1]
                          s1 == [sv EXCEPT !.conflict_analysis.current_level_count = @ - 1,
                                           !.conflict_analysis.clause =
                                               SelectSeq(@, LAMBDA l : var(l) # var(lit))]
                      IN  add_literals(s1, SelectSeq(reason, LAMBDA l : var(l) # var(lit)))

RECURSIVE resolve_trail(_, _, _)
resolve_trail(sv, cf, rev_trail) ==
    IF rev_trail = <<>> \/ is_some(sv.panic) THEN sv
    ELSE Let(resolve_trail_lit(sv, cf, Head(rev_trail)),
             LAMBDA s1 :
                 IF is_some(s1.panic) \/ s1.conflict_analysis.current_level_count <= 1 THEN s1
                 ELSE resolve_trail(s1, cf, Tail(rev_trail)))

reverse(seq) == [i \in 1..Len(seq) |-> seq[Len(seq) + 1 - i]]

\* analyze without the failure for a clause whose highest level is the root level
analyze_root_not_checked(sv, cf) ==
    Let(AndThen(nucleus([sv EXCEPT !.conflict_analysis =
                                       [clause |-> <<>>, current_level_count |-> 0],
                                   !.vsids = bump(@, cf.var)],
                        cf, negative(cf.var)),
                LAMBDA s1 : nucleus(s1, cf, positive(cf.var))),
        LAMBDA s2 :
            IF is_some(s2.panic) THEN [sv |-> s2, result |-> None]
            ELSE IF s2.conflict_analysis.current_level_count = 0
            THEN [sv |-> [s2 EXCEPT !.vsids = decay(@)],
                  result |-> Some(get_backtrack_level(s2, clause_max_dec_lvl(s2)))]
            ELSE IF s2.conflict_analysis.current_level_count <= 1
            THEN Let(minimize_learnt_clause(s2, cf),
                     LAMBDA s3 :
                         IF is_some(s3.panic) THEN [sv |-> s3, result |-> None]
                         ELSE [sv |-> [s3 EXCEPT !.vsids = decay(@)],
                               result |-> Some(get_backtrack_level(s3,
                                                   decision_level(s3.trail)))])
            ELSE Let(AndThen(resolve_trail(s2, cf, reverse(s2.trail.trail)),
                             LAMBDA s3 : minimize_learnt_clause(s3, cf)),
                     LAMBDA s4 :
                         IF is_some(s4.panic) THEN [sv |-> s4, result |-> None]
                         ELSE IF s4.conflict_analysis.current_level_count # 1
                         THEN [sv |-> Panic(s4, "assertion failed: current_level_count == 1"),
                               result |-> None]
                         ELSE [sv |-> [s4 EXCEPT !.vsids = decay(@)],
                               result |-> Some(get_backtrack_level(s4,
                                                   decision_level(s4.trail)))]))

\* analyze: the solver after the call and Ok(level) as Some(level), Err(()) as None
analyze(sv, cf) ==
    Let(AndThen(nucleus([sv EXCEPT !.conflict_analysis =
                                       [clause |-> <<>>, current_level_count |-> 0],
                                   !.vsids = bump(@, cf.var)],
                        cf, negative(cf.var)),
                LAMBDA s1 : nucleus(s1, cf, positive(cf.var))),
        LAMBDA s2 :
            IF is_some(s2.panic) THEN [sv |-> s2, result |-> None]
            ELSE IF s2.conflict_analysis.current_level_count = 0
            THEN IF clause_max_dec_lvl(s2) = ROOT THEN [sv |-> s2, result |-> None]
                 ELSE [sv |-> [s2 EXCEPT !.vsids = decay(@)],
                       result |-> Some(get_backtrack_level(s2, clause_max_dec_lvl(s2)))]
            ELSE IF s2.conflict_analysis.current_level_count <= 1
            THEN Let(minimize_learnt_clause(s2, cf),
                     LAMBDA s3 :
                         IF is_some(s3.panic) THEN [sv |-> s3, result |-> None]
                         ELSE [sv |-> [s3 EXCEPT !.vsids = decay(@)],
                               result |-> Some(get_backtrack_level(s3,
                                                   decision_level(s3.trail)))])
            ELSE Let(AndThen(resolve_trail(s2, cf, reverse(s2.trail.trail)),
                             LAMBDA s3 : minimize_learnt_clause(s3, cf)),
                     LAMBDA s4 :
                         IF is_some(s4.panic) THEN [sv |-> s4, result |-> None]
                         ELSE IF s4.conflict_analysis.current_level_count # 1
                         THEN [sv |-> Panic(s4, "assertion failed: current_level_count == 1"),
                               result |-> None]
                         ELSE [sv |-> [s4 EXCEPT !.vsids = decay(@)],
                               result |-> Some(get_backtrack_level(s4,
                                                   decision_level(s4.trail)))]))


----------------------------------------------------------------------------
(* the driver: from_qcnf, then solve *)

Satisfiable_ == "Satisfiable"
Unsatisfiable == "Unsatisfiable"
Unknown == "Unknown"

Init ==
    /\ \/ input \in TestInputs \cup ExtraInputs
       \/ GenInput(input)
    /\ pc = IF input.prefix # <<>> THEN "quantify"
            ELSE IF input.matrix # <<>> THEN "add_clause" ELSE "solve"
    /\ next_line = 0
    /\ s = IncDetDefault
    /\ conflict = None
    /\ backtrack = None
    /\ result = None

\* the next position, unless the step has panicked
Continue(s1, next) == pc' = IF is_some(s1.panic) THEN "panic" ELSE next

\* from_qcnf: solver._quantify(*qty, vars) for the next line of the prefix
Quantify ==
    /\ pc = "quantify"
    /\ LET line == input.prefix[next_line + 1]
           last == next_line + 1 = Len(input.prefix)
       IN  /\ s' = quantify(s, line.quant, line.vars)
           /\ next_line' = IF last THEN 0 ELSE next_line + 1
           /\ pc' = IF ~last THEN "quantify"
                    ELSE IF input.matrix # <<>> THEN "add_clause" ELSE "solve"
    /\ UNCHANGED <<input, conflict, backtrack, result>>

\* from_qcnf: solver._add_clause(clause) for the next clause of the matrix
AddClause ==
    /\ pc = "add_clause"
    /\ s' = add_clause(s, input.matrix[next_line + 1])
    /\ next_line' = next_line + 1
    /\ Continue(s', IF next_line + 1 = Len(input.matrix) THEN "solve" ELSE "add_clause")
    /\ UNCHANGED <<input, conflict, backtrack, result>>

\* Solve with the two early returns in the other order
Solve_ConflictedFirst ==
    /\ pc = "solve"
    /\ IF s.conflicted
       THEN /\ result' = Some(Unsatisfiable)
            /\ pc' = "done"
            /\ s' = s
       ELSE IF Len(s.prefix) > 2
       THEN /\ result' = Some(Unknown)
            /\ pc' = "done"
            /\ s' = s
       ELSE /\ s' = AndThen(build_watchlist(s), build_vsids_heap)
            /\ Continue(s', "propagate")
            /\ result' = result
    /\ UNCHANGED <<input, next_line, conflict, backtrack>>

\* Solve without the early return on the conflicted flag
Solve_IgnoresConflicted ==
    /\ pc = "solve"
    /\ IF Len(s.prefix) > 2
       THEN /\ result' = Some(Unknown)
            /\ pc' = "done"
            /\ s' = s
       ELSE /\ s' = AndThen(build_watchlist(s), build_vsids_heap)
            /\ Continue(s', "propagate")
            /\ result' = result
    /\ UNCHANGED <<input, next_line, conflict, backtrack>>

\* _solve up to the loop
Solve ==
    /\ pc = "solve"
    /\ IF Len(s.prefix) > 2
       THEN /\ result' = Some(Unknown)
            /\ pc' = "done"
            /\ s' = s
       ELSE IF s.conflicted
       THEN /\ result' = Some(Unsatisfiable)
            /\ pc' = "done"
            /\ s' = s
       ELSE /\ s' = AndThen(build_watchlist(s), build_vsids_heap)
            /\ Continue(s', "propagate")
            /\ result' = result
    /\ UNCHANGED <<input, next_line, conflict, backtrack>>

\* propagate, Propagation::Constant(lit)
PropagateConstant(lit) ==
    LET s1 == [s EXCEPT !.constant_propagation = Tail(@)]
        v == var(lit)
        value == s.assignment[v]
        opposite == implications(s.skolem[negated(lit)])
    IN  IF is_some(value)
        THEN IF \/ unwrap(value) = "True" /\ is_positive(lit)
                \/ unwrap(value) = "False" /\ is_negative(lit)
             THEN /\ s' = s1
                  /\ pc' = "propagate"
                  /\ conflict' = conflict
             ELSE /\ s' = Panic(s1, "not yet implemented")
                  /\ pc' = "panic"
                  /\ conflict' = conflict
        ELSE IF opposite # <<>>
        THEN LET others == SelectSeq(s.allocator[opposite[1] + 1],
                                     LAMBDA l : l # negated(lit))
             IN  IF \E l \in Range(others) : ~is_universal(s, var(l))
                 THEN /\ s' = Panic(s1, "assertion failed: is_universal")
                      /\ pc' = "panic"
                      /\ conflict' = conflict
                 ELSE /\ s' = s1
                      /\ pc' = "handle_conflict"
                      /\ conflict' = Some(Conflict(v, {negated(l) : l \in Range(others)}))
        ELSE /\ s' = assign_and_propagate(s1, lit, FALSE, TRUE)
             /\ Continue(s', "propagate")
             /\ conflict' = conflict

\* propagate, Propagation::Function(var), with the polarity of the larger Skolem set
PropagateFunction_LargerPolarity(v) ==
    LET s1 == [s EXCEPT !.propagation = heap_update_value(heap_pop(@), v, 0)]
        lit == IF imp_len(s.skolem[positive(v)]) <= imp_len(s.skolem[negative(v)])
               THEN negative(v) ELSE positive(v)
    IN  IF is_assigned(s, v)
        THEN /\ s' = s1
             /\ pc' = "propagate"
             /\ conflict' = conflict
        ELSE IF ~has_unique_consequence(s, v)
        THEN /\ s' = [s1 EXCEPT !.stats.local_det_checks = @ + 1]
             /\ pc' = "propagate"
             /\ conflict' = conflict
        ELSE \E s2 \in {[s1 EXCEPT !.stats.local_det_checks = @ + 1]} :
             \E results \in {is_conflicted_results(s2, v, None)} :
             \E s3 \in {is_conflicted(s2, v, None)} :
                 \/ \E assignment \in results :
                      /\ s' = s3
                      /\ pc' = "handle_conflict"
                      /\ conflict' = Some(Conflict(v, assignment))
                 \/ /\ results = {}
                    /\ s' = assign_and_propagate(s3, lit, FALSE, FALSE)
                    /\ Continue(s', "propagate")
                    /\ conflict' = conflict

\* propagate, Propagation::Function(var)
PropagateFunction(v) ==
    LET s1 == [s EXCEPT !.propagation = heap_update_value(heap_pop(@), v, 0)]
        lit == IF imp_len(s.skolem[positive(v)]) <= imp_len(s.skolem[negative(v)])
               THEN positive(v) ELSE negative(v)
    IN  IF is_assigned(s, v)
        THEN /\ s' = s1
             /\ pc' = "propagate"
             /\ conflict' = conflict
        ELSE IF ~has_unique_consequence(s, v)
        THEN /\ s' = [s1 EXCEPT !.stats.local_det_checks = @ + 1]
             /\ pc' = "propagate"
             /\ conflict' = conflict
        ELSE \E s2 \in {[s1 EXCEPT !.stats.local_det_checks = @ + 1]} :
             \E results \in {is_conflicted_results(s2, v, None)} :
             \E s3 \in {is_conflicted(s2, v, None)} :
                 \/ \E assignment \in results :
                      /\ s' = s3
                      /\ pc' = "handle_conflict"
                      /\ conflict' = Some(Conflict(v, assignment))
                 \/ /\ results = {}
                    /\ s' = assign_and_propagate(s3, lit, FALSE, FALSE)
                    /\ Continue(s', "propagate")
                    /\ conflict' = conflict

\* one turn of the loop of propagate
Propagate ==
    /\ pc = "propagate"
    /\ IF s.constant_propagation # <<>> THEN PropagateConstant(Head(s.constant_propagation))
       ELSE IF is_some(heap_peek(s.propagation))
            THEN PropagateFunction(unwrap(heap_peek(s.propagation)))
            ELSE /\ pc' = "decide"
                 /\ UNCHANGED <<s, conflict>>
    /\ UNCHANGED <<input, next_line, backtrack, result>>

\* the decision with the counter incremented before the heap is asked
Decide_CountsFirst ==
    /\ pc = "decide"
    /\ LET next == next_decision_variable(s)
           v == unwrap(next)
           s1 == [s EXCEPT !.stats.decisions = @ + 1]
           neg_count == lit_count(s.skolem[negative(v)], s.allocator)
           pos_count == lit_count(s.skolem[positive(v)], s.allocator)
           decision == IF neg_count <= pos_count THEN negative(v) ELSE positive(v)
       IN  IF next = None
           THEN /\ result' = Some(Satisfiable_)
                /\ pc' = "done"
                /\ s' = s1
                /\ conflict' = conflict
           ELSE IF is_assigned(s, v)
           THEN /\ s' = Panic(s1, "assertion failed: !self.assignment.is_assigned(var)")
                /\ pc' = "panic"
                /\ UNCHANGED <<conflict, result>>
           ELSE \E results \in {is_conflicted_results(s1, v, Some(decision))} :
                \E s2 \in {is_conflicted(s1, v, Some(decision))} :
                    \/ \E assignment \in results :
                         /\ s' = s2
                         /\ pc' = "handle_conflict"
                         /\ conflict' = Some(Conflict(v, assignment))
                         /\ result' = result
                    \/ /\ results = {}
                       /\ s' = assign_and_propagate(s2, decision, TRUE, FALSE)
                       /\ Continue(s', "propagate")
                       /\ UNCHANGED <<conflict, result>>
    /\ UNCHANGED <<input, next_line, backtrack>>

\* the decision with the polarity chosen by the number of implication clauses
Decide_ByClauseCount ==
    /\ pc = "decide"
    /\ LET next == next_decision_variable(s)
           v == unwrap(next)
           s1 == [s EXCEPT !.stats.decisions = @ + 1]
           neg_count == imp_len(s.skolem[negative(v)])
           pos_count == imp_len(s.skolem[positive(v)])
           decision == IF neg_count <= pos_count THEN negative(v) ELSE positive(v)
       IN  IF next = None
           THEN /\ result' = Some(Satisfiable_)
                /\ pc' = "done"
                /\ UNCHANGED <<s, conflict>>
           ELSE IF is_assigned(s, v)
           THEN /\ s' = Panic(s1, "assertion failed: !self.assignment.is_assigned(var)")
                /\ pc' = "panic"
                /\ UNCHANGED <<conflict, result>>
           ELSE \E results \in {is_conflicted_results(s1, v, Some(decision))} :
                \E s2 \in {is_conflicted(s1, v, Some(decision))} :
                    \/ \E assignment \in results :
                         /\ s' = s2
                         /\ pc' = "handle_conflict"
                         /\ conflict' = Some(Conflict(v, assignment))
                         /\ result' = result
                    \/ /\ results = {}
                       /\ s' = assign_and_propagate(s2, decision, TRUE, FALSE)
                       /\ Continue(s', "propagate")
                       /\ UNCHANGED <<conflict, result>>
    /\ UNCHANGED <<input, next_line, backtrack>>

\* _solve: the decision after propagate has returned None
Decide ==
    /\ pc = "decide"
    /\ LET next == next_decision_variable(s)
           v == unwrap(next)
           s1 == [s EXCEPT !.stats.decisions = @ + 1]
           neg_count == lit_count(s.skolem[negative(v)], s.allocator)
           pos_count == lit_count(s.skolem[positive(v)], s.allocator)
           decision == IF neg_count <= pos_count THEN negative(v) ELSE positive(v)
       IN  IF next = None
           THEN /\ result' = Some(Satisfiable_)
                /\ pc' = "done"
                /\ UNCHANGED <<s, conflict>>
           ELSE IF is_assigned(s, v)
           THEN /\ s' = Panic(s1, "assertion failed: !self.assignment.is_assigned(var)")
                /\ pc' = "panic"
                /\ UNCHANGED <<conflict, result>>
           ELSE \E results \in {is_conflicted_results(s1, v, Some(decision))} :
                \E s2 \in {is_conflicted(s1, v, Some(decision))} :
                    \/ \E assignment \in results :
                         /\ s' = s2
                         /\ pc' = "handle_conflict"
                         /\ conflict' = Some(Conflict(v, assignment))
                         /\ result' = result
                    \/ /\ results = {}
                       /\ s' = assign_and_propagate(s2, decision, TRUE, FALSE)
                       /\ Continue(s', "propagate")
                       /\ UNCHANGED <<conflict, result>>
    /\ UNCHANGED <<input, next_line, backtrack>>

\* handle_conflict without the return at the root level
HandleConflict_RootNotChecked ==
    /\ pc = "handle_conflict"
    /\ s.stats.added_clauses < MaxLearnt
    /\ \E a \in {analyze(s, unwrap(conflict))} :
           /\ s' = a.sv
           /\ IF is_some(a.sv.panic)
              THEN /\ pc' = "panic"
                   /\ UNCHANGED <<backtrack, result>>
              ELSE IF a.result = None
              THEN /\ result' = Some(Unsatisfiable)
                   /\ pc' = "done"
                   /\ backtrack' = backtrack
              ELSE /\ backtrack' = a.result
                   /\ pc' = "backtrack"
                   /\ result' = result
    /\ UNCHANGED <<input, next_line, conflict>>

\* handle_conflict up to the call of backtrack_to
HandleConflict ==
    /\ pc = "handle_conflict"
    /\ s.stats.added_clauses < MaxLearnt
    /\ IF is_root(decision_level(s.trail))
       THEN /\ result' = Some(Unsatisfiable)
            /\ pc' = "done"
            /\ UNCHANGED <<s, backtrack>>
       ELSE \E a \in {analyze(s, unwrap(conflict))} :
                /\ s' = a.sv
                /\ IF is_some(a.sv.panic)
                   THEN /\ pc' = "panic"
                        /\ UNCHANGED <<backtrack, result>>
                   ELSE IF a.result = None
                   THEN /\ result' = Some(Unsatisfiable)
                        /\ pc' = "done"
                        /\ backtrack' = backtrack
                   ELSE /\ backtrack' = a.result
                        /\ pc' = "backtrack"
                        /\ result' = result
    /\ UNCHANGED <<input, next_line, conflict>>

\* handle_conflict: self.backtrack_to(backtrack_to)
Backtrack ==
    /\ pc = "backtrack"
    /\ s' = backtrack_to(s, unwrap(backtrack))
    /\ Continue(s', "learn")
    /\ UNCHANGED <<input, next_line, conflict, backtrack, result>>

\* handle_conflict: the learnt clause is added, None is returned
Learn ==
    /\ pc = "learn"
    /\ s' = AndThen(add_clause(s, s.conflict_analysis.clause),
                    LAMBDA s1 :
                        LET s2 == [s1 EXCEPT !.stats.added_clauses = @ + 1]
                        IN  IF s2.conflicted
                            THEN Panic(s2,
                                 "empty clause cannot be added through conflict analysis")
                            ELSE s2)
    /\ Continue(s', "propagate")
    /\ conflict' = None
    /\ backtrack' = None
    /\ UNCHANGED <<input, next_line, result>>

Next == Quantify \/ AddClause \/ Solve \/ Propagate \/ Decide
            \/ HandleConflict \/ Backtrack \/ Learn

Spec == Init /\ [][Next]_vars

----------------------------------------------------------------------------
(* The truth of the input formula, by expansion of its quantifiers *)

\* the bindings of a prefix in order, one per variable
RECURSIVE Bindings(_)
Bindings(prefix) ==
    IF prefix = <<>> THEN <<>>
    ELSE [i \in 1..Len(Head(prefix).vars) |->
              [quant |-> Head(prefix).quant, var |-> Head(prefix).vars[i]]]
         \o Bindings(Tail(prefix))

\* a clause holds under a set of true literals
ClauseTrue(clause, asg) == \E i \in 1..Len(clause) : clause[i] \in asg

MatrixTrue(matrix, asg) == \A i \in 1..Len(matrix) : ClauseTrue(matrix[i], asg)

\* asg with the variable of lit set to lit (an inner binding shadows an outer)
Bind(asg, lit) == (asg \ {lit, negated(lit)}) \cup {lit}

RECURSIVE QbfHolds(_, _, _)
QbfHolds(binds, matrix, asg) ==
    IF binds = <<>> THEN MatrixTrue(matrix, asg)
    ELSE LET v == Head(binds).var
             pos == QbfHolds(Tail(binds), matrix, Bind(asg, positive(v)))
             neg == QbfHolds(Tail(binds), matrix, Bind(asg, negative(v)))
         IN  IF Head(binds).quant = Forall THEN pos /\ neg ELSE pos \/ neg

QbfTrue(in) == QbfHolds(Bindings(in.prefix), in.matrix, {})

\* the prefix built by the quantifier lines is one forall block followed by
\* one exists block, or a single block
ForallExists ==
    /\ Len(s.prefix) <= 2
    /\ Len(s.prefix) = 2 => s.prefix[1].quantifier = Forall

----------------------------------------------------------------------------
(* C1 *)

\* C1: for an input whose prefix has at most two scopes (forall, then
\* exists), when solve() returns Satisfiable the formula is true: every
\* assignment of the universal variables extends to one of the existential
\* variables that satisfies every input clause.
C1_SatisfiableIsTrue ==
    (pc = "done" /\ result = Some(Satisfiable_) /\ ForallExists)
        => QbfTrue(input)

\* Satisfiable is returned after a decision, a conflict and a learnt clause
C1_Witness ==
    /\ pc = "done" /\ result = Some(Satisfiable_) /\ ForallExists
    /\ Len(s.prefix) = 2
    /\ s.stats.decisions > 0
    /\ s.stats.added_clauses > 0

----------------------------------------------------------------------------
(* C2 *)

----------------------------------------------------------------------------
(* C3 *)

Results == {Some(Satisfiable_), Some(Unsatisfiable), Some(Unknown)}

\* C3: for every input solve() terminates and returns one of Satisfiable,
\* Unsatisfiable, Unknown: a run of solve() that has ended, by a return or
\* by a panic, has returned one of the three results.
C3_TerminatesWithResult ==
    pc \in {"done", "panic"} => result \in Results

----------------------------------------------------------------------------
(* C4 *)

\* no watch list is built, no variable is assigned, no oracle call is made
SearchNotStarted ==
    /\ ~s.watches.enabled
    /\ \A l \in DOMAIN s.watches.watches : s.watches.watches[l] = <<>>
    /\ s.trail = TrailDefault
    /\ \A v \in DOMAIN s.assignment : s.assignment[v] = None
    /\ \A v \in DOMAIN s.dec_lvls : s.dec_lvls[v] = None
    /\ s.conflict_check.sat_solver.sat_solver = VarisatDefault
    /\ s.stats.local_det_checks = 0
    /\ s.stats.local_conflict_checks = 0
    /\ s.stats.global_conflict_checks = 0

\* C4: when the prefix built by the quantifier lines has more than two
\* scopes, solve() returns Unknown whatever the matrix contains, before any
\* watch list is built, any variable is assigned or any oracle call is made.
C4_UnknownBeforeSearch ==
    (Len(s.prefix) > 2 /\ pc \notin {"quantify", "add_clause", "solve"})
        => /\ pc = "done"
           /\ result = Some(Unknown)
           /\ SearchNotStarted

\* Unknown is returned for a matrix that holds the empty clause and others
C4_Witness ==
    /\ Len(s.prefix) > 2
    /\ pc = "done" /\ result = Some(Unknown)
    /\ s.conflicted
    /\ Len(s.allocator) >= 2

----------------------------------------------------------------------------
(* C5 *)

Tautology(clause) == \E i, j \in 1..Len(clause) : clause[i] = negated(clause[j])

\* the clause has no existential literal (universal reduction removes
\* universal literals only)
NoExistential(clause) ==
    \A i \in 1..Len(clause) : is_universal(s, var(clause[i]))

Returned == pc \notin {"quantify", "add_clause", "solve"}

\* C5 as stated: when some input clause has no existential literal left
\* after universal reduction, the conflicted flag is set and solve() returns
\* Unsatisfiable.
C5_EmptyClauseUnsatisfiable ==
    (Returned /\ \E i \in 1..Len(input.matrix) : NoExistential(input.matrix[i]))
        => /\ s.conflicted
           /\ pc = "done"
           /\ result = Some(Unsatisfiable)

\* C5 amended: when some input clause that is no tautology has no
\* existential literal, the conflicted flag is set, and solve() returns
\* Unsatisfiable when the prefix has at most two scopes and Unknown when it
\* has more.
C5_EmptyClauseConflicted ==
    (Returned /\ \E i \in 1..Len(input.matrix) :
                    /\ NoExistential(input.matrix[i])
                    /\ ~Tautology(input.matrix[i]))
        => /\ s.conflicted
           /\ pc = "done"
           /\ result = Some(IF Len(s.prefix) > 2 THEN Unknown ELSE Unsatisfiable)

\* Unsatisfiable is returned for a clause of universal literals next to
\* clauses with existential literals
C5_Witness ==
    /\ pc = "done" /\ result = Some(Unsatisfiable)
    /\ Len(s.prefix) = 2
    /\ \E i \in 1..Len(input.matrix) :
          /\ input.matrix[i] # <<>>
          /\ NoExistential(input.matrix[i])
          /\ ~Tautology(input.matrix[i])
    /\ \E i \in 1..Len(input.matrix) : ~NoExistential(input.matrix[i])

----------------------------------------------------------------------------
(* C6 *)

\* analyze has returned Err: no literal of the nucleus is at the current
\* level and none is above ROOT
AnalysisFailed(sv) ==
    /\ sv.conflict_analysis.current_level_count = 0
    /\ \A l \in Range(sv.conflict_analysis.clause) :
          sv.dec_lvls[var(l)] \in {None, Some(ROOT)}

\* the clause of the arena that _add_clause makes of the learnt clause:
\* its existential literals, and universal literals of it
IsLearnt(clause, learnt) ==
    /\ Range(clause) \subseteq Range(learnt)
    /\ \A l \in Range(learnt) : is_existential(s, var(l)) => l \in Range(clause)

\* the step of handle_conflict up to its return or to the backtrack
C6_HandleConflictStep ==
    pc = "handle_conflict" =>
        /\ (result' = Some(Unsatisfiable))
              <=> (s.trail.decisions = <<>> \/ AnalysisFailed(s'))
        /\ s.trail.decisions = <<>> =>
              /\ pc' = "done"
              /\ s'.trail = s.trail
              /\ s'.skolem = s.skolem
              /\ s'.allocator = s.allocator
        /\ result' = Some(Unsatisfiable) => pc' = "done"
        /\ result' # Some(Unsatisfiable) =>
              /\ result' = None
              /\ pc' = "backtrack"
              /\ is_some(backtrack')
              /\ unwrap(backtrack') < Len(s.trail.decisions)

\* the rest of handle_conflict: the backtrack, then the learnt clause
C6_BacktrackAndLearn ==
    /\ pc = "backtrack" =>
          /\ pc' = "learn"
          /\ result' = None
          /\ Len(s'.trail.decisions) = unwrap(backtrack)
    /\ pc = "learn" =>
          /\ pc' = "propagate"
          /\ result' = None
          /\ Len(s'.allocator) = Len(s.allocator) + 1
          /\ IsLearnt(s'.allocator[Len(s'.allocator)], s.conflict_analysis.clause)
          /\ s'.stats.added_clauses = s.stats.added_clauses + 1

----------------------------------------------------------------------------
(* C7 *)

AllExistentialsAssigned ==
    \A v \in DOMAIN s.vars :
        (is_bound(s, v) /\ is_existential(s, v)) => is_assigned(s, v)

\* propagation at the root level alone has assigned every existential
\* variable: no decision is on the trail and no clause was learnt
PropagationAlone ==
    /\ pc = "decide"
    /\ s.trail.decisions = <<>>
    /\ s.stats.added_clauses = 0
    /\ AllExistentialsAssigned

\* C7: when propagation at the root level alone assigns every existential
\* variable without conflict, solve() returns Satisfiable and the decisions
\* counter is 0; the example of the IncDet paper is such an input.
C7_PropagationAlone ==
    /\ [][PropagationAlone =>
            /\ pc' = "done"
            /\ result' = Some(Satisfiable_)
            /\ s'.stats.decisions = 0]_vars
    /\ []((input = propagation_sat_incdet_paper /\ pc = "done")
            => (result = Some(Satisfiable_) /\ s.stats.decisions = 0))

\* the example of the paper is solved with both existential variables on
\* the trail at the root level
C7_Witness ==
    /\ input = propagation_sat_incdet_paper
    /\ pc = "done" /\ result = Some(Satisfiable_)
    /\ Len(s.trail.trail) = 2
    /\ s.trail.decisions = <<>>
    /\ s.stats.decisions = 0

----------------------------------------------------------------------------
(* C8 *)

OnTrail(v) == \E i \in 1..Len(s.trail.trail) : var(s.trail.trail[i]) = v

\* C8: in every state between the steps of the solver, for every variable
\* v, dec_lvls[v] is set iff Assignment[v] is set iff a literal of v is on
\* the trail.
C8_AssignedIffOnTrail ==
    \A v \in DOMAIN s.vars :
        /\ is_some(s.dec_lvls[v]) <=> is_some(s.assignment[v])
        /\ is_some(s.assignment[v]) <=> OnTrail(v)

\* after a backtrack a variable is on the trail and another one, existential
\* as well, is off it again
C8_Witness ==
    /\ pc = "learn"
    /\ \E v, w \in DOMAIN s.vars :
          /\ OnTrail(v) /\ is_some(s.dec_lvls[v])
          /\ is_existential(s, w) /\ ~OnTrail(w) /\ ~is_some(s.dec_lvls[w])

----------------------------------------------------------------------------
(* C9 *)

\* the positions of the trail that a decision marks
DecisionMarkers == {i \in 0..(Len(s.trail.trail) - 1) : i \in Range(s.trail.decisions)}

MaxDecLvl ==
    LET lvls == {unwrap(s.dec_lvls[v]) : v \in {w \in DOMAIN s.dec_lvls : is_some(s.assignment[w])}}
    IN  IF lvls = {} THEN ROOT ELSE Max(lvls)

\* C9: in every state between the steps of the solver, decision_level() is
\* the number of decision markers in the trail and the largest dec_lvls[v]
\* of an assigned variable v (ROOT when none is assigned), also after every
\* backtrack_to(L).
C9_DecisionLevel ==
    /\ decision_level(s.trail) = Cardinality(DecisionMarkers)
    /\ decision_level(s.trail) = MaxDecLvl
    /\ pc = "learn" => decision_level(s.trail) = unwrap(backtrack)

\* after a backtrack to a level above ROOT
C9_Witness ==
    /\ pc = "learn"
    /\ unwrap(backtrack) >= 1
    /\ decision_level(s.trail) = unwrap(backtrack)
    /\ Cardinality(DecisionMarkers) = unwrap(backtrack)
    /\ MaxDecLvl = unwrap(backtrack)

----------------------------------------------------------------------------
(* C10 *)

\* the map restricted to the keys up to lvl
UpTo(map, lvl) == [k \in {j \in DOMAIN map : j <= lvl} |-> map[k]]

\* C10: after backtrack_to(L) no Skolem entry, no entry of the implication
\* graph and no entry of the assumption map of the oracle has a level above
\* L, and every entry with a level up to L that was there before the call
\* still is.
C10_BacktrackKeepsUpTo ==
    [][pc = "backtrack" =>
         LET L == unwrap(backtrack)
         IN  /\ \A l \in DOMAIN s.skolem : s'.skolem[l] = UpTo(s.skolem[l], L)
             /\ \A l \in DOMAIN s.graph :
                   s'.graph[l] = SelectSeq(s.graph[l], LAMBDA e : e.dec_lvl <= L)
             /\ s'.conflict_check.assumptions = UpTo(s.conflict_check.assumptions, L)]_vars

\* after a backtrack to a level L above ROOT: entries of level L are left in
\* the three structures, and an assumption literal of a level above L was
\* retired with a unit clause
C10_Witness ==
    /\ pc = "learn"
    /\ unwrap(backtrack) >= 1
    /\ \E l \in DOMAIN s.skolem : unwrap(backtrack) \in DOMAIN s.skolem[l]
    /\ \E l \in DOMAIN s.graph : \E i \in 1..Len(s.graph[l]) :
          s.graph[l][i].dec_lvl = unwrap(backtrack)
    /\ unwrap(backtrack) \in DOMAIN s.conflict_check.assumptions
    /\ \E c \in s.conflict_check.sat_solver.sat_solver.clauses :
          \E a \in c : c = {a} /\ a < 0

----------------------------------------------------------------------------
(* C11 *)

UniversalVars == {v \in DOMAIN s.vars : is_bound(s, v) /\ is_universal(s, v)}

\* C11: in every reachable state every universal variable is unassigned, and
\* no universal variable is on the trail, in the VSIDS heap, in the queue of
\* function propagations or in the queue of constant propagations.
C11_UniversalsUnassigned ==
    \A v \in UniversalVars :
        /\ s.assignment[v] = None
        /\ s.dec_lvls[v] = None
        /\ ~OnTrail(v)
        /\ v \notin Range(s.vsids.heap.heap)
        /\ v \notin Range(s.propagation.heap)
        /\ \A i \in 1..Len(s.constant_propagation) : var(s.constant_propagation[i]) # v

\* in the search, with a universal variable in the prefix: literals on the
\* trail, a variable in the VSIDS heap and one in the propagation queue
C11_Witness ==
    /\ pc = "propagate"
    /\ UniversalVars # {}
    /\ s.trail.trail # <<>>
    /\ s.vsids.heap.heap # <<>>
    /\ s.propagation.heap # <<>>
    /\ s.stats.added_clauses > 0

----------------------------------------------------------------------------
(* C12 *)

\* the long clauses: the clauses _add_clause pushes to self.clauses
LongClauses == Range(s.clauses)

\* the literals whose watch list holds the clause
Watchers(cid) == {l \in DOMAIN s.watches.watches : watches_clause(s, l, cid)}

\* the entries of the watch lists that point to the clause
WatchEntries(cid) ==
    {e \in (DOMAIN s.watches.watches) \X (1..(2 * Len(s.allocator))) :
        /\ e[2] <= Len(s.watches.watches[e[1]])
        /\ s.watches.watches[e[1]][e[2]] = cid}

\* the existential literals of the clause whose variable is unassigned
UnassignedExistentials(cid) ==
    {l \in Range(s.allocator[cid + 1]) : is_existential(s, var(l)) /\ ~is_assigned(s, var(l))}

\* the watch lists are built and no function of the solver has panicked
Searching == s.watches.enabled /\ pc # "panic"

\* C12: in every state of the search between two steps, every long clause
\* with at least two unassigned existential literals is watched by exactly
\* two literals, and both are unassigned existential literals of the clause.
C12_TwoWatches ==
    Searching =>
        \A cid \in LongClauses :
            Cardinality(UnassignedExistentials(cid)) >= 2
                => /\ Cardinality(WatchEntries(cid)) = 2
                   /\ Cardinality(Watchers(cid)) = 2
                   /\ Watchers(cid) \subseteq UnassignedExistentials(cid)

\* after a learnt clause was added: a long clause of three existential
\* literals, one of them assigned, whose watch has moved to the third literal
C12_Witness ==
    /\ Searching
    /\ pc = "propagate"
    /\ s.stats.added_clauses > 0
    /\ \E cid \in LongClauses :
          LET clause == s.allocator[cid + 1]
          IN  /\ Len(clause) = 3
              /\ Cardinality(UnassignedExistentials(cid)) = 2
              /\ is_existential(s, var(clause[1])) /\ is_assigned(s, var(clause[1]))
              /\ Watchers(cid) = {clause[2], clause[3]}

----------------------------------------------------------------------------
(* C13 *)

\* the decision levels of the assigned existential literals of the clause
AssignedLevels(cid) ==
    {unwrap(s.dec_lvls[var(l)]) :
        l \in {k \in Range(s.allocator[cid + 1]) :
                  is_existential(s, var(k)) /\ is_assigned(s, var(k))}}

\* the clause is recorded in Skolem[l] at the level
RecordedAt(l, cid, lvl) ==
    /\ lvl \in DOMAIN s.skolem[l]
    /\ cid \in Range(s.skolem[l][lvl])

\* C13: in every state of the search between two steps, when exactly one
\* existential literal l of a long clause is unassigned, the clause is
\* recorded in Skolem[l] at the highest decision level of the assigned
\* existential literals of the clause.
C13_ImplicationRecorded ==
    Searching =>
        \A cid \in LongClauses :
            Cardinality(UnassignedExistentials(cid)) = 1
                => \A l \in UnassignedExistentials(cid) :
                       RecordedAt(l, cid, Max(AssignedLevels(cid)))

\* a clause recorded at a level above ROOT with one unassigned literal, after
\* a backtrack and a learnt clause
C13_Witness ==
    /\ Searching
    /\ s.stats.added_clauses > 0
    /\ \E cid \in LongClauses :
          /\ Cardinality(UnassignedExistentials(cid)) = 1
          /\ Max(AssignedLevels(cid)) >= 1
          /\ \A l \in UnassignedExistentials(cid) :
                 RecordedAt(l, cid, Max(AssignedLevels(cid)))

----------------------------------------------------------------------------
(* C14 *)

\* C14: in every state between two steps, for every literal l and every
\* clause stored in Skolem[l] at level d, the clause contains l and d is at
\* most the current decision level.
C14_SkolemEntries ==
    pc # "panic" =>
        \A l \in DOMAIN s.skolem : \A d \in DOMAIN s.skolem[l] :
            /\ d <= decision_level(s.trail)
            /\ \A i \in 1..Len(s.skolem[l][d]) :
                   l \in Range(s.allocator[s.skolem[l][d][i] + 1])

\* after a backtrack to a level above ROOT and a learnt clause: entries at
\* the root level and at the current level
C14_Witness ==
    /\ pc = "propagate"
    /\ s.stats.added_clauses > 0
    /\ decision_level(s.trail) >= 1
    /\ \E l \in DOMAIN s.skolem : ROOT \in DOMAIN s.skolem[l] /\ s.skolem[l][ROOT] # <<>>
    /\ \E l \in DOMAIN s.skolem :
          /\ decision_level(s.trail) \in DOMAIN s.skolem[l]
          /\ s.skolem[l][decision_level(s.trail)] # <<>>

----------------------------------------------------------------------------
(* C15 *)

\* the clause conflict analysis has left for handle_conflict
LearntClause == s.conflict_analysis.clause

\* C15: every learnt clause that handle_conflict passes to _add_clause has an
\* existential literal (universal reduction removes none of them), the
\* conflicted flag is not set by it and the assert of handle_conflict holds.
C15_LearntClauseHasExistential ==
    [][pc = "learn" =>
         /\ \E i \in 1..Len(LearntClause) : is_existential(s, var(LearntClause[i]))
         /\ ~s'.conflicted
         /\ s'.panic # Some("empty clause cannot be added through conflict analysis")]_vars

\* a learnt clause with a universal and an existential literal was added
C15_Witness ==
    /\ pc = "propagate"
    /\ s.stats.added_clauses > 0
    /\ conflict = None
    /\ ~s.conflicted
    /\ LearntClause = s.allocator[Len(s.allocator)]
    /\ \E i \in 1..Len(LearntClause) : is_existential(s, var(LearntClause[i]))
    /\ \E i \in 1..Len(LearntClause) : is_universal(s, var(LearntClause[i]))

----------------------------------------------------------------------------
(* The VSIDS heap driven operation by operation: the calls that assignment
   (remove), backtracking (add) and conflict analysis (bump, decay) issue,
   in any order, on the heap that build_vsids_heap has filled *)

HeapVars == 0..(NumHeapVars - 1)

RECURSIVE vsids_add_all(_, _)
vsids_add_all(vs, v) ==
    IF v >= NumHeapVars THEN vs ELSE vsids_add_all(vsids_add(vs, v), v + 1)

HeapInit ==
    /\ input = QCNF(<<>>, <<>>)
    /\ pc = "heap"
    /\ next_line = 0
    /\ s = [IncDetDefault EXCEPT
               !.vsids = vsids_add_all(vsids_set_var_count(VsidsDefault, NumHeapVars), 0)]
    /\ conflict = None
    /\ backtrack = None
    /\ result = None

\* an operation is applied and counted; the driver stays where it is
HeapOp ==
    /\ pc = "heap"
    /\ next_line < MaxHeapOps
    /\ next_line' = next_line + 1
    /\ UNCHANGED <<input, pc, conflict, backtrack, result>>

VsidsAdd ==
    /\ HeapOp
    /\ \E v \in HeapVars : s' = [s EXCEPT !.vsids = vsids_add(@, v)]

VsidsRemove ==
    /\ HeapOp
    /\ \E v \in HeapVars : s' = [s EXCEPT !.vsids = vsids_remove(@, v)]

VsidsBump ==
    /\ HeapOp
    /\ \E v \in HeapVars : s' = [s EXCEPT !.vsids = bump(@, v)]

VsidsDecay ==
    /\ HeapOp
    /\ s' = [s EXCEPT !.vsids = decay(@)]

HeapNext == VsidsAdd \/ VsidsRemove \/ VsidsBump \/ VsidsDecay

HeapSpec == HeapInit /\ [][HeapNext]_vars

----------------------------------------------------------------------------
(* C16 *)

\* the children of a heap position that are in the heap
Children(h, pos) == {c \in {2 * pos + 1, 2 * pos + 2} : c < Len(h.heap)}

HeapProperty(h) ==
    \A pos \in 0..(Len(h.heap) - 1) :
        \A c \in Children(h, pos) : heap_value_at(h, pos) >= heap_value_at(h, c)

\* C16: after any sequence of add, remove, bump and decay on the VSIDS heap,
\* every heap position holds a variable whose score is at least the scores
\* of the variables at both of its child positions.
C16_HeapProperty == HeapProperty(s.vsids.heap)

----------------------------------------------------------------------------
(* C17 *)

\* the variables in the heap
InHeap(h) == Range(h.heap)

\* peek returns a variable whose score is maximal among those in the heap
PeekMaximal(h) ==
    is_some(heap_peek(h)) =>
        \A v \in InHeap(h) : h.values[unwrap(heap_peek(h))] >= h.values[v]

\* C17: after any sequence of add, remove, bump and pop (the remove of the
\* first entry), peek returns a variable whose score is maximal among the
\* variables in the heap, peek returns None iff the heap is empty, and a
\* variable that is removed and added again keeps its score.
C17_PeekMaximal ==
    LET h == s.vsids.heap
    IN  /\ PeekMaximal(h)
        /\ heap_peek(h) = None <=> InHeap(h) = {}
        /\ \A v \in DOMAIN h.values :
               heap_add(heap_remove(h, v), v).values[v] = h.values[v]

----------------------------------------------------------------------------
(* C18 *)

\* the key of a variable in the queue of function propagations
Key(v) == imp_len(s.skolem[positive(v)]) + imp_len(s.skolem[negative(v)])

\* the variables in the order in which next_propagation takes them from the
\* queue when nothing is inserted in between
RECURSIVE DrainOrder(_)
DrainOrder(h) ==
    IF heap_peek(h) = None THEN <<>>
    ELSE <<unwrap(heap_peek(h))>>
             \o DrainOrder(heap_update_value(heap_pop(h), unwrap(heap_peek(h)), 0))

\* the existential literals of an allocated clause
Existentials(clause) == SelectSeq(clause, LAMBDA l : is_existential(s, var(l)))

\* before the search _add_clause inserts a variable into the queue for a
\* clause whose only existential literal it is: the clauses that insert v
InsertedBy(v) ==
    {i \in 1..Len(s.allocator) :
        /\ Len(Existentials(s.allocator[i])) = 1
        /\ var(Existentials(s.allocator[i])[1]) = v}

\* the first of them: the position of v in the order of insertion
FirstInserted(v) == CHOOSE i \in InsertedBy(v) : \A j \in InsertedBy(v) : i <= j

\* solve() has built the watch lists and nothing has left the queue yet
BeforeFirstPropagation ==
    /\ pc = "propagate"
    /\ s.trail.trail = <<>>
    /\ s.stats.local_det_checks = 0
    /\ s.stats.added_clauses = 0

\* C18: the variables leave the queue of function propagations in order of
\* decreasing key |Skolem[+v]| + |Skolem[-v]|, and variables with equal keys
\* leave in the order in which they were inserted (stated for the queue that
\* the input clauses have filled when the search starts).
C18_DrainOrder ==
    BeforeFirstPropagation =>
        LET d == DrainOrder(s.propagation)
        IN  \A i, j \in 1..Len(d) :
                i < j => \/ Key(d[i]) > Key(d[j])
                         \/ /\ Key(d[i]) = Key(d[j])
                            /\ FirstInserted(d[i]) < FirstInserted(d[j])

----------------------------------------------------------------------------
(* qdimacs.rs: the literals of a clause line. An integer of the input is its
   sign and its decimal digits, the most significant first; an i64 under
   construction is its digits without leading zeros *)

InvalidInt == "InvalidInt"
LiteralOutOfBound == "LiteralOutOfBound"
UnexpectedEndOfFile == "UnexpectedEndOfFile"

Ok(x) == [ok |-> TRUE, val |-> x, err |-> ""]
Err(e) == [ok |-> FALSE, val |-> 0, err |-> e]

\* i32::MAX
I32_MAX == 2147483647
\* the decimal digits of i32::MAX, of the magnitude of i32::MIN and of i64::MAX
I32_MAX_DIGITS == <<2, 1, 4, 7, 4, 8, 3, 6, 4, 7>>
I32_MIN_DIGITS == <<2, 1, 4, 7, 4, 8, 3, 6, 4, 8>>
I64_MAX_DIGITS == <<9, 2, 2, 3, 3, 7, 2, 0, 3, 6, 8, 5, 4, 7, 7, 5, 8, 0, 7>>

\* the largest variable index one lower: (u32::MAX >> 1) - 2
MAX_VAR_one_lower == I32_MAX - 2

\* Var::MAX_VAR.index: (u32::MAX >> 1) - 1, and u32::MAX >> 1 is i32::MAX
MAX_VAR == I32_MAX - 1
\* Lit::MAX_LIT.to_dimacs() and Lit::MIN_LIT.to_dimacs()
MAX_LIT_to_dimacs == var_to_dimacs(MAX_VAR)
MIN_LIT_to_dimacs == -var_to_dimacs(MAX_VAR)

RECURSIVE StripZeros(_)
StripZeros(ds) == IF ds # <<>> /\ Head(ds) = 0 THEN StripZeros(Tail(ds)) ELSE ds

\* a <= b for digit sequences of the same length
RECURSIVE LexLeq(_, _)
LexLeq(a, b) ==
    \/ a = <<>>
    \/ Head(a) < Head(b)
    \/ Head(a) = Head(b) /\ LexLeq(Tail(a), Tail(b))

\* a <= b for digit sequences without leading zeros
DigitsLeq(a, b) == Len(a) < Len(b) \/ (Len(a) = Len(b) /\ LexLeq(a, b))

\* the integer of a digit sequence that is at most i32::MAX
RECURSIVE DigitsToInt(_, _)
DigitsToInt(ds, acc) ==
    IF ds = <<>> THEN acc ELSE DigitsToInt(Tail(ds), 10 * acc + Head(ds))

\* parse_int, the loop over the digits: parsed.checked_mul(10) and then
\* checked_add(val) on an i64; None is the overflow
RECURSIVE parse_digits(_, _)
parse_digits(bytes, parsed) ==
    IF bytes = <<>> THEN Some(parsed)
    ELSE Let(StripZeros(Append(parsed, Head(bytes))),
             LAMBDA next : IF DigitsLeq(next, I64_MAX_DIGITS)
                           THEN parse_digits(Tail(bytes), next)
                           ELSE None)

\* parse_int::<i32>: the digits, the negation, I::try_from(parsed)
parse_int(token) ==
    Let(parse_digits(token.digits, <<>>),
        LAMBDA parsed :
            IF parsed = None THEN Err(InvalidInt)
            ELSE IF DigitsLeq(unwrap(parsed), I32_MAX_DIGITS)
            THEN Ok(IF token.neg THEN -DigitsToInt(unwrap(parsed), 0)
                    ELSE DigitsToInt(unwrap(parsed), 0))
            ELSE IF token.neg /\ unwrap(parsed) = I32_MIN_DIGITS THEN Ok(-I32_MAX - 1)
            ELSE Err(LiteralOutOfBound))

\* Lit::from_dimacs with the asserts of Var::from_dimacs and Var::from_index:
\* the variable and the polarity, or the panic
lit_from_dimacs(lit) ==
    LET abs == IF lit < 0 THEN -lit ELSE lit
    IN  IF ~(abs > 0) THEN [panic |-> Some("assertion failed: var > 0"), lit |-> None]
        ELSE IF ~(var_from_dimacs(abs) <= MAX_VAR)
        THEN [panic |-> Some("assertion failed: index <= Self::MAX_VAR.index"), lit |-> None]
        ELSE [panic |-> None,
              lit |-> Some([var |-> var_from_dimacs(abs), positive |-> lit > 0])]

\* parse_matrix, one turn of the inner loop: the error, the end of the
\* clause, or the literal pushed to the clause
parse_matrix_literal(token) ==
    Let(parse_int(token),
        LAMBDA lit :
            IF ~lit.ok THEN [kind |-> "error", err |-> lit.err, panic |-> None]
            ELSE IF lit.val = 0 THEN [kind |-> "break", err |-> "", panic |-> None]
            ELSE IF ~(MIN_LIT_to_dimacs <= lit.val /\ lit.val <= MAX_LIT_to_dimacs)
            THEN [kind |-> "error", err |-> LiteralOutOfBound, panic |-> None]
            ELSE [kind |-> "push", err |-> "", panic |-> lit_from_dimacs(lit.val).panic])

\* the integers of the generated clause lines: zero, small ones, one with a
\* leading zero, the ones around i32::MAX and around i64::MAX, one of 20 digits
TokenDigits ==
    {<<0>>, <<1>>, <<0, 7>>,
     <<2, 1, 4, 7, 4, 8, 3, 6, 4, 5>>, <<2, 1, 4, 7, 4, 8, 3, 6, 4, 6>>,
     I32_MAX_DIGITS, I32_MIN_DIGITS, <<2, 1, 4, 7, 4, 8, 3, 6, 4, 9>>,
     I64_MAX_DIGITS,
     <<9, 2, 2, 3, 3, 7, 2, 0, 3, 6, 8, 5, 4, 7, 7, 5, 8, 0, 8>>,
     <<1, 0, 0, 0, 0, 0, 0, 0, 0, 0, 0, 0, 0, 0, 0, 0, 0, 0, 0, 0>>}

Tokens == [neg : BOOLEAN, digits : TokenDigits]

\* the clause lines: up to MaxTokens integers
ClauseLines == UNION {[1..n -> Tokens] : n \in 1..MaxTokens}

ParserInit ==
    /\ input \in ClauseLines
    /\ pc = "parse_matrix"
    /\ next_line = 0
    /\ s = IncDetDefault
    /\ conflict = None
    /\ backtrack = None
    /\ result = None

\* parse_matrix: the next integer of the clause line is read
ParseLiteral ==
    /\ pc = "parse_matrix"
    /\ next_line < Len(input)
    /\ \E r \in {parse_matrix_literal(input[next_line + 1])} :
          /\ pc' = IF is_some(r.panic) THEN "panic"
                   ELSE IF r.kind = "error" THEN "parse_error"
                   ELSE IF r.kind = "break" THEN "clause_read"
                   ELSE "parse_matrix"
          /\ result' = IF r.kind = "error" THEN Some(r.err) ELSE result
    /\ next_line' = next_line + 1
    /\ UNCHANGED <<input, s, conflict, backtrack>>

\* parse_matrix: the input ends inside a clause
ParseEndOfFile ==
    /\ pc = "parse_matrix"
    /\ next_line = Len(input)
    /\ pc' = "parse_error"
    /\ result' = Some(UnexpectedEndOfFile)
    /\ UNCHANGED <<input, next_line, s, conflict, backtrack>>

ParserNext == ParseLiteral \/ ParseEndOfFile

ParserSpec == ParserInit /\ [][ParserNext]_vars

----------------------------------------------------------------------------
(* C19 *)

\* the integer that parse_matrix reads next, and its magnitude
NextToken == input[next_line + 1]
Magnitude(token) == StripZeros(token.digits)

\* parse_matrix is about to read an integer that is not zero
ReadsNonzero ==
    /\ pc = "parse_matrix"
    /\ next_line < Len(input)
    /\ Magnitude(NextToken) # <<>>

\* C19 as stated: the parser accepts a nonzero clause literal iff its value
\* lies in [-2^31 + 2, 2^31 - 2], and every literal outside of this range is
\* rejected with the out-of-bound error.
C19_LiteralRangeStated ==
    [][ReadsNonzero =>
         /\ pc' = "parse_matrix"
                <=> DigitsLeq(Magnitude(NextToken), <<2, 1, 4, 7, 4, 8, 3, 6, 4, 6>>)
         /\ pc' # "parse_matrix"
                => pc' = "parse_error" /\ result' = Some(LiteralOutOfBound)]_vars

\* C19, amended: the parser accepts a nonzero clause literal iff its value
\* lies in [-2^31 + 1, 2^31 - 1]; a literal outside of this range is rejected
\* with LiteralOutOfBound when its magnitude is at most i64::MAX and with
\* InvalidInt when it is larger.
C19_LiteralRange ==
    [][ReadsNonzero =>
         /\ pc' = "parse_matrix" <=> DigitsLeq(Magnitude(NextToken), I32_MAX_DIGITS)
         /\ pc' # "parse_matrix"
                => /\ pc' = "parse_error"
                   /\ result' = IF DigitsLeq(Magnitude(NextToken), I64_MAX_DIGITS)
                                THEN Some(LiteralOutOfBound)
                                ELSE Some(InvalidInt)]_vars

\* the literals 2147483647 and -2147483647 were accepted
C19_Witness ==
    /\ pc = "parse_matrix"
    /\ next_line = 2
    /\ input[1] = [neg |-> FALSE, digits |-> I32_MAX_DIGITS]
    /\ input[2] = [neg |-> TRUE, digits |-> I32_MAX_DIGITS]

----------------------------------------------------------------------------
(* C20: the two stages of is_conflicted *)

\* the variable and the decision of the call of is_conflicted the next step makes
CheckedVar ==
    IF pc = "decide" THEN unwrap(next_decision_variable(s))
    ELSE unwrap(heap_peek(s.propagation))

CheckedDecision ==
    IF pc = "decide"
    THEN Some(IF lit_count(s.skolem[negative(CheckedVar)], s.allocator)
                   <= lit_count(s.skolem[positive(CheckedVar)], s.allocator)
              THEN negative(CheckedVar) ELSE positive(CheckedVar))
    ELSE None

\* the step calls is_conflicted: only is_conflicted counts a local conflict check
CallsIsConflicted == s'.stats.local_conflict_checks = s.stats.local_conflict_checks + 1

\* the step reports the conflict Some(assignment) of is_conflicted to handle_conflict
ReportsConflict == pc' = "handle_conflict" /\ conflict' # None

\* C20: a call of is_conflicted reports a conflict only if the local check and the
\* global incremental check are both satisfiable, and then counts the conflict; when
\* the local check is unsatisfiable the global check is not run (its counter and the
\* incremental solver's clauses are those of a step without the call), no conflict
\* is reported and the conflicts counter is unchanged.
C20_IsConflictedStages ==
    [][CallsIsConflicted =>
         /\ ReportsConflict
              => /\ is_conflicted_local(s, CheckedVar, CheckedDecision)
                 /\ is_conflicted_incremental_results(s, CheckedVar, CheckedDecision) # {}
                 /\ unwrap(conflict').assignment
                        \in is_conflicted_incremental_results(s, CheckedVar, CheckedDecision)
                 /\ s'.stats.global_conflict_checks = s.stats.global_conflict_checks + 1
                 /\ s'.stats.conflicts = s.stats.conflicts + 1
         /\ ~is_conflicted_local(s, CheckedVar, CheckedDecision)
              => /\ ~ReportsConflict
                 /\ conflict' = conflict
                 /\ s'.stats.global_conflict_checks = s.stats.global_conflict_checks
                 /\ s'.stats.conflicts = s.stats.conflicts
         /\ ~ReportsConflict => s'.stats.conflicts = s.stats.conflicts]_vars

\* a local check was unsatisfiable, so that the global check was skipped, and
\* another call ran both checks and reported a conflict
C20_Witness ==
    /\ s.stats.local_conflict_checks > s.stats.global_conflict_checks
    /\ s.stats.conflicts > 0
    /\ pc = "handle_conflict"

----------------------------------------------------------------------------
(* C21: what propagation assigns *)

\* the last literal of the trail
LastLit(sv) == sv.trail.trail[Len(sv.trail.trail)]

\* the step is a turn of propagate that puts a literal on the trail
PropagationAssigns ==
    pc = "propagate" /\ Len(s'.trail.trail) = Len(s.trail.trail) + 1

\* C21: a turn of propagate that assigns a variable v assigns an unassigned
\* existential variable that has unique consequence and is not conflicted, as a
\* non-decision at the current decision level, and the literal put on the trail
\* is the polarity of v whose Skolem set holds no more implication clauses than
\* the other one (the positive one when both hold as many).
C21_PropagationAssigns ==
    [][PropagationAssigns =>
         LET lit == LastLit(s')
             v == var(lit)
         IN  /\ is_existential(s, v)
             /\ ~is_assigned(s, v)
             /\ has_unique_consequence(s, v)
             /\ is_conflicted_results(s, v, None) = {}
             /\ pc' # "handle_conflict"
             /\ s'.trail.decisions = s.trail.decisions
             /\ ~is_decision(s'.trail, lit)
             /\ s'.dec_lvls[v] = Some(decision_level(s.trail))
             /\ imp_len(s.skolem[lit]) <= imp_len(s.skolem[negated(lit)])
             /\ imp_len(s.skolem[lit]) = imp_len(s.skolem[negated(lit)])
                    => is_positive(lit)]_vars

\* propagation has just assigned a negative literal, whose Skolem set holds
\* fewer implication clauses than the one of the positive literal, above the
\* root level
C21_Witness ==
    /\ pc = "propagate"
    /\ s.trail.trail # <<>>
    /\ is_negative(LastLit(s))
    /\ ~is_decision(s.trail, LastLit(s))
    /\ decision_level(s.trail) > 0
    /\ imp_len(s.skolem[LastLit(s)]) < imp_len(s.skolem[negated(LastLit(s))])

----------------------------------------------------------------------------
(* C22: the polarity of a decision *)

\* the step is a decision: the trail gains a decision marker
DecisionAssigns ==
    pc = "decide" /\ Len(s'.trail.decisions) = Len(s.trail.decisions) + 1

\* C22 as stated: the decided literal is the polarity whose Skolem set holds no
\* more implication clauses than the one of the other polarity.
C22_DecisionFewerClauses ==
    [][DecisionAssigns =>
         imp_len(s.skolem[LastLit(s')]) <= imp_len(s.skolem[negated(LastLit(s'))])]_vars

\* C22: the decided literal is the polarity whose Skolem set holds no more
\* literals, summed over its implication clauses, than the one of the other
\* polarity, and the negative literal when both hold as many.
C22_DecisionFewerLiterals ==
    [][DecisionAssigns =>
         LET lit == LastLit(s')
         IN  /\ is_decision(s'.trail, lit)
             /\ ~is_assigned(s, var(lit))
             /\ lit_count(s.skolem[lit], s.allocator)
                    <= lit_count(s.skolem[negated(lit)], s.allocator)
             /\ lit_count(s.skolem[lit], s.allocator)
                    = lit_count(s.skolem[negated(lit)], s.allocator)
                    => is_negative(lit)]_vars

\* a decision has just been made on the positive literal, whose Skolem set
\* holds more clauses and fewer literals than the one of the negative literal
C22_Witness ==
    /\ pc = "propagate"
    /\ s.trail.trail # <<>>
    /\ is_decision(s.trail, LastLit(s))
    /\ is_positive(LastLit(s))
    /\ imp_len(s.skolem[LastLit(s)]) > imp_len(s.skolem[negated(LastLit(s))])
    /\ lit_count(s.skolem[LastLit(s)], s.allocator)
           < lit_count(s.skolem[negated(LastLit(s))], s.allocator)

----------------------------------------------------------------------------
(* C23: the assignment of a conflict *)

\* C23: the assignment of every conflict the conflict check produces holds
\* literals of universal variables only.
C23_ConflictAssignmentUniversal ==
    is_some(conflict)
        => \A l \in unwrap(conflict).assignment : is_universal(s, var(l))

\* C23: the assignment of every conflict the conflict check produces holds, when
\* the conflict is handed to handle_conflict, at most one literal per variable,
\* and only literals of universal variables and of assigned existential
\* variables other than the conflicted one.
C23_ConflictAssignmentVars ==
    pc = "handle_conflict" /\ is_some(conflict)
        => \A l \in unwrap(conflict).assignment :
              /\ negated(l) \notin unwrap(conflict).assignment
              /\ var(l) # unwrap(conflict).var
              /\ is_universal(s, var(l)) \/ is_assigned(s, var(l))

\* a conflict whose assignment holds a literal of a universal variable and a
\* literal of an existential variable
C23_Witness ==
    /\ is_some(conflict)
    /\ pc = "handle_conflict"
    /\ \E l \in unwrap(conflict).assignment : is_universal(s, var(l))
    /\ \E l \in unwrap(conflict).assignment : is_existential(s, var(l))

----------------------------------------------------------------------------
(* C24: clause minimization *)

\* the solver when analyze calls minimize_learnt_clause for the conflict cf,
\* None when analyze returns or panics before the call
BeforeMinimization(sv, cf) ==
    Let(AndThen(nucleus([sv EXCEPT !.conflict_analysis =
                                       [clause |-> <<>>, current_level_count |-> 0],
                                   !.vsids = bump(@, cf.var)],
                        cf, negative(cf.var)),
                LAMBDA s1 : nucleus(s1, cf, positive(cf.var))),
        LAMBDA s2 :
            IF is_some(s2.panic) \/ s2.conflict_analysis.current_level_count = 0 THEN None
            ELSE IF s2.conflict_analysis.current_level_count <= 1 THEN Some(s2)
            ELSE Let(resolve_trail(s2, cf, reverse(s2.trail.trail)),
                     LAMBDA s3 : IF is_some(s3.panic) THEN None ELSE Some(s3)))

\* the variables assigned as decisions
DecisionVars(sv) == {var(iter_decisions(sv.trail)[i]) : i \in 1..Len(sv.trail.decisions)}

\* lit is redundant in the recursive sense: existential, not a decision, and every
\* other literal of every implied antecedent of its negation is redundant
RECURSIVE RedundantLit(_, _, _, _)
RedundantLit(sv, lit, cf, depth) ==
    /\ depth > 0
    /\ is_existential(sv, var(lit))
    /\ ~is_decision(sv.trail, lit)
    /\ \A i \in 1..Len(sv.graph[negated(lit)]) :
          LET reason == sv.allocator[sv.graph[negated(lit)][i].clause + 1]
          IN  is_implied(reason, negated(lit), cf.assignment)
                  => \A p \in Range(reason) \ {negated(lit)} :
                         RedundantLit(sv, p, cf, depth - 1)

\* the step is an analysis that has minimized the learnt clause
Minimizes ==
    /\ pc = "handle_conflict"
    /\ pc' = "backtrack"
    /\ is_some(BeforeMinimization(s, unwrap(conflict)))

\* the literals the minimization of the step removes from the learnt clause
Removed ==
    Range(unwrap(BeforeMinimization(s, unwrap(conflict))).conflict_analysis.clause)
        \ Range(s'.conflict_analysis.clause)

\* minimization removes no literal of a universal variable
KeepsUniversal == \A l \in Removed : is_existential(s, var(l))

\* minimization removes no literal of the current decision level
KeepsCurrentLevel ==
    \A l \in Removed : dec_lvl_or_root(s, l) # decision_level(s.trail)

\* minimization adds no literal and removes only literals that are redundant in
\* the recursive sense
RemovesRedundant ==
    /\ Range(s'.conflict_analysis.clause)
           \subseteq Range(unwrap(BeforeMinimization(s, unwrap(conflict)))
                               .conflict_analysis.clause)
    /\ \A l \in Removed : RedundantLit(s, l, unwrap(conflict), RecursionDepth(s))

\* C24 as stated: minimization never removes a universal literal, a literal whose
\* variable was assigned as a decision, or the literal of the current decision
\* level, and removes an existential literal only when it is redundant in the
\* recursive sense.
C24_MinimizationStated ==
    [][Minimizes =>
         /\ KeepsUniversal
         /\ \A l \in Removed : var(l) \notin DecisionVars(s)
         /\ KeepsCurrentLevel
         /\ RemovesRedundant]_vars

\* C24: minimization never removes a universal literal, a literal that is itself
\* a decision literal of the trail, or the literal of the current decision level,
\* and removes an existential literal only when it is redundant in the recursive
\* sense.
C24_Minimization ==
    [][Minimizes =>
         /\ KeepsUniversal
         /\ \A l \in Removed : ~is_decision(s.trail, l)
         /\ KeepsCurrentLevel
         /\ RemovesRedundant]_vars

\* analysis has just minimized the learnt clause and has removed the negation of
\* a decision literal of a lower level, kept a literal of the current level
C24_Witness ==
    /\ pc = "backtrack"
    /\ is_some(conflict)
    /\ is_some(BeforeMinimization(s, unwrap(conflict)))
    /\ \E l \in Range(unwrap(BeforeMinimization(s, unwrap(conflict))).conflict_analysis.clause)
                  \ Range(s.conflict_analysis.clause) :
           /\ is_decision(s.trail, negated(l))
           /\ dec_lvl_or_root(s, l) < decision_level(s.trail)
    /\ \E l \in Range(s.conflict_analysis.clause) :
           dec_lvl_or_root(s, l) = decision_level(s.trail)

----------------------------------------------------------------------------
(* C25: the reverse trail walk of analyze *)

\* the solver after analyze has built the nucleus of the conflict cf
AfterNucleus(sv, cf) ==
    AndThen(nucleus([sv EXCEPT !.conflict_analysis =
                                   [clause |-> <<>>, current_level_count |-> 0],
                               !.vsids = bump(@, cf.var)],
                    cf, negative(cf.var)),
            LAMBDA s1 : nucleus(s1, cf, positive(cf.var)))

\* analyze reaches the walk over the reversed trail for the conflict cf
WalksTrail(sv, cf) ==
    /\ ~is_some(AfterNucleus(sv, cf).panic)
    /\ AfterNucleus(sv, cf).conflict_analysis.current_level_count > 1

\* the resolutions of the walk: the trail literal and the counter before each
RECURSIVE Resolutions(_, _, _)
Resolutions(sv, cf, rev_trail) ==
    IF rev_trail = <<>> THEN {}
    ELSE Let(resolve_trail_lit(sv, cf, Head(rev_trail)),
             LAMBDA s1 :
                 (IF s1 # sv
                  THEN {[lit |-> Head(rev_trail),
                         count |-> sv.conflict_analysis.current_level_count]}
                  ELSE {})
                 \cup (IF is_some(s1.panic) \/ s1.conflict_analysis.current_level_count <= 1
                       THEN {}
                       ELSE Resolutions(s1, cf, Tail(rev_trail))))

\* the existential literals of the clause that were assigned at the current level
CurrentLevelLits(sv) ==
    {l \in Range(sv.conflict_analysis.clause) :
        /\ is_existential(sv, var(l))
        /\ sv.dec_lvls[var(l)] = Some(decision_level(sv.trail))}

----------------------------------------------------------------------------
(* C26: the level analyze returns *)

\* the decision levels of the literals of the learnt clause, ROOT for a literal
\* whose variable has no level
ClauseLevels(sv) == {dec_lvl_or_root(sv, l) : l \in Range(sv.conflict_analysis.clause)}

\* the largest level of levels, ROOT when there is none
MaxLevel(levels) == IF levels = {} THEN ROOT ELSE Max(levels)

\* C26 as stated: the level analyze returns is the largest level of the learnt
\* clause's literals other than the current decision level, ROOT when there is
\* none.
C26_BacktrackLevelStated ==
    [][pc = "handle_conflict" /\ pc' = "backtrack" =>
         unwrap(backtrack')
             = MaxLevel(ClauseLevels(s') \ {decision_level(s.trail)})]_vars

\* the level analyze leaves out: the current decision level when the clause holds
\* an existential literal of that level, the highest level of the clause otherwise
ExcludedLevel(sv) ==
    IF sv.conflict_analysis.current_level_count = 0 THEN MaxLevel(ClauseLevels(sv))
    ELSE decision_level(sv.trail)

\* C26: the level analyze returns is the largest level of the learnt clause's
\* literals other than the current decision level when the clause holds an
\* existential literal of that level, and other than the highest level of the
\* clause when it holds none; ROOT when there is no such level.
C26_BacktrackLevel ==
    [][pc = "handle_conflict" /\ pc' = "backtrack" =>
         /\ unwrap(backtrack') = MaxLevel(ClauseLevels(s') \ {ExcludedLevel(s')})
         /\ unwrap(backtrack') < decision_level(s.trail)
         /\ s'.conflict_analysis.current_level_count = 0
                <=> CurrentLevelLits(s') = {}]_vars

\* analyze has returned the root level for a clause without a literal of the
\* current level, whose highest level is above the root level
C26_Witness ==
    /\ pc = "backtrack"
    /\ s.conflict_analysis.current_level_count = 0
    /\ backtrack = Some(ROOT)
    /\ MaxLevel(ClauseLevels(s) \ {decision_level(s.trail)}) > ROOT

----------------------------------------------------------------------------
(* C27: the fresh variable of an unsatisfiable incremental check *)

\* the step runs the incremental conflict check and the check is unsatisfiable:
\* the global check is counted and no conflict is
GlobalCheckUnsat ==
    /\ s'.stats.global_conflict_checks = s.stats.global_conflict_checks + 1
    /\ s'.stats.conflicts = s.stats.conflicts

\* the fresh variable is_conflicted_incremental takes from the oracle
IncrementalVar == ls_new_variable(s.conflict_check.sat_solver)

\* C27: when the incremental conflict check of a step is unsatisfiable, the
\* oracle holds the unit clause of the negated fresh variable of that check
\* after the step.
C27_IncrementalVarDisabled ==
    [][GlobalCheckUnsat =>
         {-IncrementalVar} \in s'.conflict_check.sat_solver.sat_solver.clauses]_vars

----------------------------------------------------------------------------
(* C28: the assumptions of the decision levels *)

\* the clauses of the oracle of the conflict check
OracleClauses(sv) == sv.conflict_check.sat_solver.sat_solver.clauses

\* the assumption variables of the levels above lvl
AssumptionsAbove(sv, lvl) ==
    {sv.conflict_check.assumptions[k] :
        k \in {j \in DOMAIN sv.conflict_check.assumptions : j > lvl}}

\* the oracle variables that a unit clause has switched off
Disabled(sv) == {a \in 1..sv.conflict_check.sat_solver.sat_solver.new_lit :
                    {-a} \in OracleClauses(sv)}

\* backtrack_to(L) adds the unit clause of the negated assumption variable of
\* every level above L and drops those levels; it keeps the assumptions of the
\* levels up to L
BacktrackDisables ==
    /\ AssumptionsAbove(s, unwrap(backtrack)) \subseteq Disabled(s')
    /\ AssumptionsAbove(s', unwrap(backtrack)) = {}
    /\ \A k \in DOMAIN s.conflict_check.assumptions :
           k <= unwrap(backtrack)
               => /\ k \in DOMAIN s'.conflict_check.assumptions
                  /\ s'.conflict_check.assumptions[k] = s.conflict_check.assumptions[k]

\* the assumption variable of a level is not a switched-off one, two levels
\* never share a variable, and the levels that have an assumption are levels
\* up to the current decision level
AssumptionsCurrent ==
    \A k \in DOMAIN s.conflict_check.assumptions :
        /\ k <= decision_level(s.trail)
        /\ s.conflict_check.assumptions[k] \notin Disabled(s)
        /\ \A j \in DOMAIN s.conflict_check.assumptions :
              j # k => s.conflict_check.assumptions[j] # s.conflict_check.assumptions[k]

\* C28: backtrack_to(L) switches off, with the unit clause of its negation, the
\* assumption variable that every definition clause of a level above L holds
\* negated; no step removes a clause of the oracle, so those clauses stay
\* satisfied; a definition added later at such a level is gated by a variable
\* that is not switched off; and the assumptions handed to solve are those of
\* levels up to the current decision level.
C28_Assumptions ==
    /\ []AssumptionsCurrent
    /\ [][/\ OracleClauses(s) \subseteq OracleClauses(s')
          /\ pc = "backtrack" /\ pc' = "learn" => BacktrackDisables]_vars

\* after a backtrack that switched an assumption variable off, a decision level
\* above the root has an assumption variable again
C28_Witness ==
    /\ pc = "propagate"
    /\ s.stats.added_clauses > 0
    /\ \E k \in DOMAIN s.conflict_check.assumptions :
           /\ k > ROOT
           /\ \E a \in Disabled(s) : a < s.conflict_check.assumptions[k]

----------------------------------------------------------------------------
(* C29: the variables of the VSIDS heap *)

\* the existential variables without a value
UnassignedExistentialVars ==
    {v \in DOMAIN s.vars : is_bound(s, v) /\ is_existential(s, v) /\ ~is_assigned(s, v)}

\* the heap holds exactly the unassigned existential variables, each once, at
\* the position recorded for it
HeapHoldsUnassigned ==
    /\ InHeap(s.vsids.heap) = UnassignedExistentialVars
    /\ Len(s.vsids.heap.heap) = Cardinality(UnassignedExistentialVars)
    /\ \A v \in DOMAIN s.vars :
          contained(s.vsids.heap, v) <=> v \in UnassignedExistentialVars

\* C29: in every state of the search between two steps the VSIDS heap holds
\* exactly the unassigned existential variables; every decision is made on an
\* unassigned existential variable, and Satisfiable is returned by a search
\* only when every existential variable is assigned.
C29_HeapIsUnassigned ==
    /\ [](Searching => HeapHoldsUnassigned)
    /\ [](Searching /\ result = Some(Satisfiable_) => AllExistentialsAssigned)
    /\ [][DecisionAssigns => /\ var(LastLit(s')) \in UnassignedExistentialVars
                             /\ Some(var(LastLit(s'))) = next_decision_variable(s)]_vars

\* after a backtrack has put variables back, the heap holds two unassigned
\* existential variables while a third one is assigned
C29_Witness ==
    /\ pc = "decide"
    /\ s.stats.added_clauses > 0
    /\ Cardinality(InHeap(s.vsids.heap)) >= 2
    /\ \E v \in DOMAIN s.vars : is_existential(s, v) /\ is_assigned(s, v)

----------------------------------------------------------------------------
(* C30: constant propagation is switched off *)

\* the values of the assignment that the constant propagation writes
ConstantValues == {Some("True"), Some("False")}

\* the unit clauses of the formula: one existential literal and no universal
\* literal, the clauses _add_clause would hand to the constant propagation
UnitClauses(sv) ==
    {i \in DOMAIN sv.allocator : Len(sv.allocator[i]) = 1}

\* C30: with ENABLE_CONSTANT_PROPAGATION false the queue of constant
\* propagations is empty in every reachable state, no variable has the value
\* True or False, propagate_constant was never called, no todo!() was reached,
\* and no step of propagate takes an entry of the constant queue.
C30_ConstantPropagationDisabled ==
    /\ [](/\ s.constant_propagation = <<>>
          /\ \A v \in DOMAIN s.assignment : s.assignment[v] \notin ConstantValues
          /\ s.stats.constant_propagations = 0
          /\ s.panic # Some("not yet implemented"))
    /\ [][pc = "propagate" /\ pc' # pc =>
              /\ s.constant_propagation = <<>>
              /\ s'.stats.constant_propagations = s.stats.constant_propagations]_vars

\* a unit clause of an existential variable was added, and the variable was
\* assigned at the root by the propagation of its function
C30_Witness ==
    /\ s.stats.function_propagations > 0
    /\ \E i \in UnitClauses(s) :
          LET v == var(s.allocator[i][1])
          IN  /\ is_existential(s, v)
              /\ s.assignment[v] \in {Some("PositiveImplications"),
                                      Some("NegativeImplications")}
              /\ s.dec_lvls[v] = Some(ROOT)

----------------------------------------------------------------------------
(* C31: a clause added during search with one unassigned existential literal *)

\* the step of handle_conflict that stores the learnt clause in the arena
LearnAdds ==
    /\ pc = "learn"
    /\ pc' = "propagate"
    /\ Len(s'.allocator) = Len(s.allocator) + 1

\* the clause as stored, and its id
AddedClause == s'.allocator[Len(s'.allocator)]
AddedId == Len(s.allocator)

ExistentialLits(sv, lits) == {l \in Range(lits) : is_existential(sv, var(l))}
UnassignedLits == {l \in ExistentialLits(s, AddedClause) : ~is_assigned(s, var(l))}
AssignedLits == {l \in ExistentialLits(s, AddedClause) : is_assigned(s, var(l))}

\* the lists of watches that hold a clause
WatchedBy(sv, cid) == {l \in DOMAIN sv.watches.watches : cid \in Range(sv.watches.watches[l])}

\* the clause has two or more existential literals, one of them unassigned
OneUnassigned ==
    /\ LearnAdds
    /\ Cardinality(ExistentialLits(s, AddedClause)) >= 2
    /\ Cardinality(UnassignedLits) = 1

\* C31: when a clause with two or more existential literals is added during
\* search and exactly one of them, w1, is unassigned, the clause is watched by
\* w1 and by an assigned existential literal w2 of the maximum decision level d
\* of the clause's assigned existential literals, it is in Skolem[w1] at level d,
\* the edge (not w2, clause, d) is in the implication graph of w1, and var(w1)
\* is in the propagation queue.
C31_OneUnassignedWatch ==
    [][OneUnassigned =>
         LET w1 == CHOOSE l \in UnassignedLits : TRUE
             d == Max({unwrap(s.dec_lvls[var(l)]) : l \in AssignedLits})
         IN  \E w2 \in AssignedLits :
                /\ s.dec_lvls[var(w2)] = Some(d)
                /\ WatchedBy(s', AddedId) = {w1, w2}
                /\ d \in DOMAIN s'.skolem[w1]
                /\ AddedId \in Range(s'.skolem[w1][d])
                /\ \A l \in DOMAIN s'.skolem : \A lvl \in DOMAIN s'.skolem[l] :
                      AddedId \in Range(s'.skolem[l][lvl]) => l = w1 /\ lvl = d
                /\ s'.graph[w1] = Append(s.graph[w1], Impl(negated(w2), AddedId, d))
                /\ contained(s'.propagation, var(w1))]_vars

\* a learnt clause with assigned literals of two decision levels is in the Skolem
\* set of its unassigned literal at a level above the root, and the variable is
\* queued
C31_Witness ==
    /\ pc = "propagate"
    /\ s.stats.added_clauses > 0
    /\ LET cid == Len(s.allocator) - 1
           lits == s.allocator[cid + 1]
       IN  /\ Cardinality(ExistentialLits(s, lits)) >= 2
           /\ \E w1 \in ExistentialLits(s, lits) :
                 /\ ~is_assigned(s, var(w1))
                 /\ \E d \in DOMAIN s.skolem[w1] :
                       d > ROOT /\ cid \in Range(s.skolem[w1][d])
                 /\ contained(s.propagation, var(w1))
                 /\ \E a, b \in ExistentialLits(s, lits) \ {w1} :
                       /\ is_assigned(s, var(a)) /\ is_assigned(s, var(b))
                       /\ unwrap(s.dec_lvls[var(a)]) < unwrap(s.dec_lvls[var(b)])

----------------------------------------------------------------------------
(* C32: the order of the steps of handle_conflict *)

\* the part of the solver that the three steps of handle_conflict change in turn
SameArena == /\ s'.allocator = s.allocator
             /\ s'.stats.added_clauses = s.stats.added_clauses

\* analyze has returned a level: the increment of VSIDS is decayed, nothing is
\* undone and nothing is added yet
AnalysedAndDecayed ==
    pc = "handle_conflict" /\ pc' = "backtrack" =>
        /\ s'.vsids.bump = decay(s.vsids).bump
        /\ s'.vsids.bump > s.vsids.bump
        /\ s'.trail = s.trail
        /\ backtrack' # None
        /\ SameArena

\* then the trail is cut to the analysed level
BacktrackedToLevel ==
    pc = "backtrack" /\ pc' # pc =>
        /\ pc' = "learn"
        /\ decision_level(s'.trail) = unwrap(backtrack)
        /\ s'.vsids.bump = s.vsids.bump
        /\ SameArena

\* then the learnt clause is stored and counted, and the search goes on
LearntClauseAdded ==
    pc = "learn" /\ pc' # pc =>
        /\ pc' = "propagate"
        /\ result' = result
        /\ Len(s'.allocator) = Len(s.allocator) + 1
        /\ SubSeq(s'.allocator, 1, Len(s.allocator)) = s.allocator
        /\ Range(s'.allocator[Len(s'.allocator)]) = Range(s.conflict_analysis.clause)
        /\ s'.stats.added_clauses = s.stats.added_clauses + 1
        /\ s'.trail = s.trail
        /\ s'.vsids.bump = s.vsids.bump

----------------------------------------------------------------------------
(* C33: the local determinism check *)

\* the clauses of Skolem[+v] and Skolem[-v], each without the literal of v
Premises(sv, v) ==
    {{l \in Range(sv.allocator[cid + 1]) : var(l) # v} : cid \in Range(skolem_clauses(sv, v))}

\* some assignment of the variables (the set of the true ones) satisfies every
\* premise
PremisesSatisfiable(sv, v) ==
    \E true \in SUBSET (DOMAIN sv.vars) :
        \A c \in Premises(sv, v) : \E l \in c : is_positive(l) <=> var(l) \in true

\* a clause of the Skolem sets of v is the unit clause on v
HasUnitClause(sv, v) ==
    \E cid \in Range(skolem_clauses(sv, v)) : Len(sv.allocator[cid + 1]) = 1

\* C33: has_unique_consequence(v) is true iff the clauses of Skolem[+v] and
\* Skolem[-v], each with the literal of v removed, are unsatisfiable together;
\* it is false when both Skolem sets are empty and true when one of them holds
\* the unit clause on v.
C33_UniqueConsequence ==
    \A v \in DOMAIN s.vars :
        is_bound(s, v) =>
            /\ has_unique_consequence(s, v) <=> ~PremisesSatisfiable(s, v)
            /\ skolem_clauses(s, v) = <<>> => ~has_unique_consequence(s, v)
            /\ HasUnitClause(s, v) => has_unique_consequence(s, v)

\* the result is true for a variable without a unit clause, whose premises
\* contradict each other, and false for a variable that has premises
C33_Witness ==
    /\ \E v \in DOMAIN s.vars :
          /\ is_bound(s, v)
          /\ has_unique_consequence(s, v)
          /\ ~HasUnitClause(s, v)
    /\ \E v \in DOMAIN s.vars :
          /\ is_bound(s, v)
          /\ ~has_unique_consequence(s, v)
          /\ skolem_clauses(s, v) # <<>>

----------------------------------------------------------------------------
(* C34: the clauses of the Skolem sets are unit under the assignment *)

\* the entries of the Skolem sets: literal, level and clause
SkolemEntries(sv) ==
    UNION {UNION {{<<l, d, cid>> : cid \in Range(sv.skolem[l][d])} :
                     d \in DOMAIN sv.skolem[l]} :
              l \in DOMAIN sv.skolem}

\* every other existential literal of the clause is assigned at a level up to d
OthersAssignedBelow(sv, l, d, cid) ==
    \A x \in ExistentialLits(sv, sv.allocator[cid + 1]) \ {l} :
        /\ is_assigned(sv, var(x))
        /\ is_some(sv.dec_lvls[var(x)])
        /\ unwrap(sv.dec_lvls[var(x)]) <= d

\* C34: in every state between two steps, for every clause stored in Skolem[l]
\* at level d, every existential literal of the clause other than l belongs to
\* a variable assigned at a decision level up to d; add_literal never meets an
\* existential literal without a decision level.
C34_SkolemClausesUnit ==
    /\ \A e \in SkolemEntries(s) : /\ e[1] \in Range(s.allocator[e[3] + 1])
                                   /\ OthersAssignedBelow(s, e[1], e[2], e[3])
    /\ s.panic # Some("there has to be at least one implication graph entry for deterministic existentials")

\* after a conflict was analysed, a clause of three existential literals is in
\* a Skolem set at a level above the root
C34_Witness ==
    /\ s.stats.conflicts > 0
    /\ s.conflict_analysis.clause # <<>>
    /\ \E e \in SkolemEntries(s) :
          /\ e[2] > ROOT
          /\ Cardinality(ExistentialLits(s, s.allocator[e[3] + 1])) >= 3

----------------------------------------------------------------------------
(* C35: the Skolem sets of an assigned variable are frozen *)

\* the variable of the literal is assigned before and after the step
StaysAssigned(l) == is_assigned(s, var(l)) /\ is_assigned(s', var(l))

\* the step assigns the variable of the literal
BecomesAssigned(l) == ~is_assigned(s, var(l)) /\ is_assigned(s', var(l))

\* the entries of the first Skolem set that the second one does not have
EntriesMissing(imp, other) ==
    {<<d, cid>> \in UNION {{<<k, c>> : c \in Range(imp[k])} : k \in DOMAIN imp} :
        d \notin DOMAIN other \/ cid \notin Range(other[d])}

\* the step adds an entry to the Skolem set of the literal, or removes one
GainsEntry(l) == EntriesMissing(s'.skolem[l], s.skolem[l]) # {}
LosesEntry(l) == EntriesMissing(s.skolem[l], s'.skolem[l]) # {}

\* C35: while an existential variable stays assigned its two Skolem sets do not
\* change: a step adds implications only to literals of variables that are
\* unassigned before and after it, so the Skolem sets read when a variable is
\* assigned are the ones it keeps, and a backtrack removes an entry of an
\* assigned variable only together with its assignment.
C35_SkolemFrozen ==
    [][DOMAIN s'.assignment = DOMAIN s.assignment =>
          \A l \in DOMAIN s.skolem :
              /\ StaysAssigned(l) => s'.skolem[l] = s.skolem[l]
              /\ BecomesAssigned(l) => s'.skolem[l] = s.skolem[l]
              /\ GainsEntry(l) => ~is_assigned(s, var(l)) /\ ~is_assigned(s', var(l))
              /\ LosesEntry(l) /\ is_assigned(s, var(l)) =>
                     pc = "backtrack" /\ ~is_assigned(s', var(l))]_vars

\* after a backtrack a variable is still assigned and has its definition,
\* while another variable has no assignment
C35_Witness ==
    /\ pc = "learn"
    /\ \E v \in DOMAIN s.vars :
          /\ is_existential(s, v)
          /\ is_assigned(s, v)
          /\ skolem_clauses(s, v) # <<>>
    /\ \E v \in DOMAIN s.vars : is_existential(s, v) /\ ~is_assigned(s, v)

----------------------------------------------------------------------------
(* C36: the analysed level is below the level of the conflict *)

\* analyze returns a level
AnalyzeReturnsLevel == pc = "handle_conflict" /\ pc' = "backtrack"

\* C36: every level analyze returns is strictly below the decision level at
\* which the conflict is handled; Trail::backtrack_to finds the entry of that
\* level in the list of decisions, and every handled conflict undoes at least
\* one decision.
C36_BacktrackBelowCurrent ==
    /\ [][AnalyzeReturnsLevel =>
             /\ is_some(backtrack')
             /\ unwrap(backtrack') < decision_level(s.trail)
             /\ unwrap(backtrack') + 1 \in DOMAIN s'.trail.decisions]_vars
    /\ [][pc = "backtrack" /\ pc' # pc =>
             /\ s'.panic # Some("index out of bounds")
             /\ decision_level(s'.trail) < decision_level(s.trail)
             /\ Len(s'.trail.trail) < Len(s.trail.trail)]_vars

\* a conflict at the third decision level is analysed to a level above the root
C36_Witness ==
    /\ pc = "backtrack"
    /\ decision_level(s.trail) >= 3
    /\ unwrap(backtrack) > ROOT

----------------------------------------------------------------------------
(* C37: the learnt clause has an unassigned literal when it is added *)

\* the existential literals of the learnt clause without assignment
UnassignedLearnt(sv) ==
    {l \in ExistentialLits(sv, sv.conflict_analysis.clause) : ~is_assigned(sv, var(l))}

\* C37: whenever handle_conflict adds a learnt clause after the backtrack to
\* the analysed level, an existential literal of the clause is unassigned, and
\* the watch selection of _add_clause does not panic.
C37_LearntHasUnassigned ==
    /\ [](pc = "learn" => UnassignedLearnt(s) # {})
    /\ [](s.panic \notin {Some("there is at least one unassigned lit"),
                          Some("there is at least one assigned existential literal")})

\* a learnt clause of three existential literals is about to be added with one
\* literal unassigned and two assigned
C37_Witness ==
    /\ pc = "learn"
    /\ Cardinality(ExistentialLits(s, s.conflict_analysis.clause)) >= 3
    /\ Cardinality(UnassignedLearnt(s)) = 1

----------------------------------------------------------------------------
(* C38: the learnt clause is a consequence of the stored clauses *)

\* the clause holds when exactly the variables of the set are true
HoldsUnder(lits, true) == \E l \in Range(lits) : is_positive(l) <=> var(l) \in true

\* the total assignments that satisfy every clause of the arena
StoredModels(sv) ==
    {true \in SUBSET (DOMAIN sv.vars) :
        \A i \in DOMAIN sv.allocator : HoldsUnder(sv.allocator[i], true)}

\* every total assignment that satisfies the stored clauses satisfies the clause
StoredEntail(sv, lits) == \A true \in StoredModels(sv) : HoldsUnder(lits, true)

----------------------------------------------------------------------------
(* C39: the tentative decision does not change the conflict checks *)

\* the two checks of is_conflicted report a conflict
LocalConflict(v, decision) == is_conflicted_local(s, v, decision)
IncrementalConflict(v, decision) == is_conflicted_incremental_results(s, v, decision) # {}
ReportedConflict(v, decision) == is_conflicted_results(s, v, decision) # {}

\* the existential variables the search may check next
Unassigned == {v \in DOMAIN s.vars : is_bound(s, v) /\ is_existential(s, v) /\ ~is_assigned(s, v)}

\* C39: in every reachable state, for every unassigned existential variable v
\* and every polarity d, is_conflicted(v, Some(d)) reports a conflict iff
\* is_conflicted(v, None) reports one; the clauses of the tentative decision
\* change the satisfiability neither of the local check nor of the incremental
\* check.
C39_DecisionKeepsConflict ==
    Searching =>
        \A v \in Unassigned : \A d \in {positive(v), negative(v)} :
            /\ LocalConflict(v, Some(d)) <=> LocalConflict(v, None)
            /\ IncrementalConflict(v, Some(d)) <=> IncrementalConflict(v, None)
            /\ ReportedConflict(v, Some(d)) <=> ReportedConflict(v, None)

\* the decision is next, and a variable that is conflicted and has clauses on
\* the literal of its tentative decision and on the other literal
C39_Witness ==
    /\ pc = "decide"
    /\ \E v \in Unassigned : \E d \in {positive(v), negative(v)} :
          /\ implications(s.skolem[d]) # <<>>
          /\ implications(s.skolem[negated(d)]) # <<>>
          /\ ReportedConflict(v, Some(d))

----------------------------------------------------------------------------
(* C40: the local conflict check is implied by the incremental one *)

\* the arguments is_conflicted can be called with for the variable
Decisions(v) == {None, Some(positive(v)), Some(negative(v))}

\* C40: in every reachable state, whenever the local conflict check of
\* (v, decision) is unsatisfiable, the incremental check of the same
\* (v, decision) is unsatisfiable too: the early return of is_conflicted after
\* an unsatisfiable local check hides no conflict.
C40_LocalUnsatIsGlobalUnsat ==
    Searching =>
        \A v \in Unassigned : \A decision \in Decisions(v) :
            ~LocalConflict(v, decision) =>
                /\ ~IncrementalConflict(v, decision)
                /\ is_conflicted(s, v, decision).stats.conflicts = s.stats.conflicts

\* while another variable is assigned and defined in the oracle, a variable with
\* clauses on both literals has an unsatisfiable local check for a decision
C40_Witness ==
    /\ Searching
    /\ \E w \in DOMAIN s.vars : is_existential(s, w) /\ is_assigned(s, w)
    /\ \E v \in Unassigned : \E d \in {positive(v), negative(v)} :
          /\ implications(s.skolem[positive(v)]) # <<>>
          /\ implications(s.skolem[negative(v)]) # <<>>
          /\ ~LocalConflict(v, Some(d))

====
